---- MODULE Spec2Model ----
(***************************************************************************)
(* Verification model of the Story_telling backend:                        *)
(*   - the curriculum matcher        (models/curriculum.py)                *)
(*   - the retry wrapper             (utils/retry.py)                      *)
(*   - the quiz generator            (services/quiz_generator.py)          *)
(*   - the story engine and cache    (services/story_engine.py,            *)
(*                                    routers/story.py)                    *)
(*   - the speech service files      (services/speech_service.py,          *)
(*                                    routers/audio.py)                    *)
(*   - the AI processor              (services/ai_processor.py)            *)
(*   - the request input check       (models/schemas.py, utils/validators) *)
(*   - the voice selection           (services/speech_service.py)          *)
(*   - the story reply parser        (services/story_engine.py)            *)
(*   - one /generate request and its vendor calls (routers/story.py)       *)
(* Strings are sequences of one-character strings, so that lower(),        *)
(* strip(), split() and the substring test are computed, not assumed.      *)
(***************************************************************************)
EXTENDS Integers, Sequences, FiniteSets, TLC

VARIABLES
    \* ---- curriculum matcher ----
    topics,          \* CurriculumKnowledgeBase.topics, in insertion order
    mKeywords,       \* keywords argument of the last find_matching_topics call
    mMaxResults,     \* max_results argument of the last call
    mScores,         \* the scores dict of the last call, in insertion order
    mResult,         \* the list of topics the last call returned
    mCalled,         \* TRUE once find_matching_topics has been called
    \* ---- retry wrapper (one call of a function wrapped by with_retry) ----
    rMax,            \* config.max_attempts
    rExceptions,     \* config.retry_exceptions (a set of exception classes)
    rFailKinds,      \* the wrapped function: the exceptions its first calls raise
    rSuccess,        \* the wrapped function: the value it returns after them
    rCalls,          \* invocations of the wrapped function so far
    rSlept,          \* the sleeps so far (their durations, in seconds)
    rPc,             \* "call", "sleep" or "done"
    rOutcome,        \* what the wrapper did: none, returned a value, raised
    \* ---- quiz generator (one call of QuizGenerator.generate_quiz) ----
    qStory,          \* the story argument (story_id, age_group)
    qNumQuestions,   \* the num_questions argument
    qCalls,          \* vendor calls so far
    qFailed,         \* invocations of generate_quiz's body that raised
    qSlept,          \* the retry sleeps so far
    qPc,             \* "call", "vendor", "sleep" or "done"
    qReply,          \* what the current vendor call gave ([kind |-> "none"] so far)
    qOutcome,        \* none, returned a QuizResponse, raised
    \* ---- story router (routers/story.py) ----
    heap,            \* the StoryResponse objects alive, by object reference
    story_cache,     \* _story_cache: items (key, reference) in insertion order
    requests,        \* the requests suspended at an await, by request number
    nRequests,       \* requests that reached an await since the initial state
    http,            \* the response the last step sent, if it sent one
    returned,        \* story ids that /generate or /from-analysis returned
    \* ---- speech service and audio router ----
    audio_dir,       \* the files of audio_output: name (id, ext) and st_mtime
    clock,           \* time.time(), in seconds
    nTicks,          \* how often the clock has advanced
    aRequests,       \* the /audio/generate requests suspended at an await
    nAudio,          \* /audio/generate requests that reached an await so far
    nextAudioId,     \* the next fresh uuid
    aHttp,           \* the response the last step sent, if it sent one
    aDeleted,        \* audio ids that DELETE has removed
    aIssued,         \* audio ids returned in an AudioResponse, and what became of each
    \* ---- AI processor (one call of process_keywords or analyze_image) ----
    pOp,             \* "keywords" or "image"
    pProvider,       \* settings.ai_provider
    pKb,             \* the topics of the processor's curriculum_kb
    pKeywords,       \* the keywords argument of process_keywords
    pCalls,          \* vendor calls so far
    pFailed,         \* invocations of the body that raised
    pSlept,          \* the retry sleeps so far
    pPc,             \* "call", "vendor", "sleep" or "done"
    pReply,          \* what the last vendor call gave ([kind |-> "none"] so far)
    pOutcome,        \* none, returned an ImageAnalysisResult, raised
    \* the input check of analyze_input and generate_story
    iVia,            \* "http": through the framework; "direct": the handler is called
    iEndpoint,       \* "analyze" (POST /api/input/analyze) or "generate"
    iInputType,      \* request.input_type
    iImageData,      \* request.image_data
    iKeywords,       \* request.keywords
    iPc,             \* "received", "handler", the call awaited, "continues", "done"
    iStatus,         \* the status answered (0: none so far)
    \* the voice selection of generate_audio
    vVoice,          \* the voice argument
    vLanguage,       \* the language argument
    vUseChildVoice,  \* the use_child_voice argument
    vDefaultVoice,   \* settings.tts_voice
    vPc,             \* "call" or "done"
    vSelected,       \* selected_voice
    vStreamPc,       \* generate_audio_stream with the same arguments: "call" or "done"
    vStreamSelected, \* its selected_voice
    \* the story parser (one call of StoryEngine._parse_story_response)
    sResponse,       \* the response argument: the vendor's reply
    sFormat,         \* the parts a reply in the requested format was built from
    sParsed,         \* the (title, content, summary) returned
    sPc,             \* "call" or "done"
    \* one POST /api/story/generate request through its three awaits
    gInputType,      \* request.input_type
    gHasInput,       \* the field the input type needs is there
    gMatched,        \* keyword input: find_matching_topics finds a topic
    gStage,          \* "start", "analysis", "story", "quiz" or "done"
    gPc,             \* within a stage: "call", "vendor" or "sleep"; "done" at the end
    gAttempt,        \* invocations of the current stage's body so far
    gCalls,          \* vendor calls so far, by stage
    gSucceeded,      \* the stages whose await has returned
    gStatus          \* the status answered (0: none so far)

matcherVars == <<topics, mKeywords, mMaxResults, mScores, mResult, mCalled>>
retryVars == <<rMax, rExceptions, rFailKinds, rSuccess, rCalls, rSlept, rPc, rOutcome>>

quizVars == <<qStory, qNumQuestions, qCalls, qFailed, qSlept, qPc, qReply, qOutcome>>

routerVars == <<heap, story_cache, requests, nRequests, http, returned>>

audioVars ==
    <<audio_dir, clock, nTicks, aRequests, nAudio, nextAudioId, aHttp, aDeleted, aIssued>>

processorVars == <<pOp, pProvider, pKb, pKeywords, pCalls, pFailed, pSlept, pPc,
                   pReply, pOutcome>>

inputVars == <<iVia, iEndpoint, iInputType, iImageData, iKeywords, iPc, iStatus>>

voiceVars == <<vVoice, vLanguage, vUseChildVoice, vDefaultVoice, vPc, vSelected,
               vStreamPc, vStreamSelected>>

parserVars == <<sResponse, sFormat, sParsed, sPc>>

pipelineVars == <<gInputType, gHasInput, gMatched, gStage, gPc, gAttempt, gCalls,
                  gSucceeded, gStatus>>

vars == <<matcherVars, retryVars, quizVars, routerVars, audioVars, processorVars,
          inputVars, voiceVars, parserVars, pipelineVars>>

exceptMatcher ==
    <<retryVars, quizVars, routerVars, audioVars, processorVars, inputVars, voiceVars,
          parserVars, pipelineVars>>
exceptRetry ==
    <<matcherVars, quizVars, routerVars, audioVars, processorVars, inputVars, voiceVars,
          parserVars, pipelineVars>>
exceptQuiz ==
    <<matcherVars, retryVars, routerVars, audioVars, processorVars, inputVars, voiceVars,
          parserVars, pipelineVars>>
exceptRouter ==
    <<matcherVars, retryVars, quizVars, audioVars, processorVars, inputVars, voiceVars,
          parserVars, pipelineVars>>
exceptAudio ==
    <<matcherVars, retryVars, quizVars, routerVars, processorVars, inputVars, voiceVars,
          parserVars, pipelineVars>>
exceptProcessor ==
    <<matcherVars, retryVars, quizVars, routerVars, audioVars, inputVars, voiceVars,
          parserVars, pipelineVars>>
exceptInput ==
    <<matcherVars, retryVars, quizVars, routerVars, audioVars, processorVars, voiceVars,
          parserVars, pipelineVars>>
exceptVoice ==
    <<matcherVars, retryVars, quizVars, routerVars, audioVars, processorVars, inputVars,
          parserVars, pipelineVars>>
exceptParser ==
    <<matcherVars, retryVars, quizVars, routerVars, audioVars, processorVars, inputVars, voiceVars,
          pipelineVars>>
exceptPipeline ==
    <<matcherVars, retryVars, quizVars, routerVars, audioVars, processorVars, inputVars, voiceVars, parserVars>>

(***************************************************************************)
(* Bounds                                                                  *)
(***************************************************************************)
MaxTopics == 3
MaxKeywords == 2
MaxCap == 3
MaxAttemptsBound == 3
MaxFailures == 3
MaxVariedQuestions == 2
MaxReplyQuestions == 6
MaxNumQuestions == 6
MaxRequests == 2
MaxAudioRequests == 2
MaxTicks == 2
MaxHours == 1

(***************************************************************************)
(* Python str operations                                                   *)
(***************************************************************************)
UpperLetters == <<"A","B","C","D","E","F","G","H","I","J","K","L","M",
                  "N","O","P","Q","R","S","T","U","V","W","X","Y","Z">>
LowerLetters == <<"a","b","c","d","e","f","g","h","i","j","k","l","m",
                  "n","o","p","q","r","s","t","u","v","w","x","y","z">>

LowerChar(c) ==
    IF \E i \in 1..26 : UpperLetters[i] = c
    THEN LowerLetters[CHOOSE i \in 1..26 : UpperLetters[i] = c]
    ELSE c

UpperChar(c) ==
    IF \E i \in 1..26 : LowerLetters[i] = c
    THEN UpperLetters[CHOOSE i \in 1..26 : LowerLetters[i] = c]
    ELSE c

\* str.lower()
Lower(s) == [i \in 1..Len(s) |-> LowerChar(s[i])]

\* str.upper()
Upper(s) == [i \in 1..Len(s) |-> UpperChar(s[i])]

IsSpace(c) == c \in {" ", "\n", "\t"}

\* str.strip(): from the first to the last non-whitespace character
Strip(s) ==
    LET keep == {i \in 1..Len(s) : ~IsSpace(s[i])}
    IN  IF keep = {} THEN <<>>
        ELSE SubSeq(s, CHOOSE i \in keep : \A j \in keep : i <= j,
                       CHOOSE i \in keep : \A j \in keep : i >= j)

\* needle in hay (Python substring test; the empty string is in every string)
Contains(hay, needle) ==
    \E i \in 0..(Len(hay) - Len(needle)) :
        SubSeq(hay, i + 1, i + Len(needle)) = needle

\* s.startswith(prefix)
StartsWith(s, prefix) ==
    /\ Len(prefix) <= Len(s)
    /\ SubSeq(s, 1, Len(prefix)) = prefix

\* the n-th smallest element of a finite set of integers
NthOf(S, n) == CHOOSE i \in S : Cardinality({j \in S : j < i}) = n - 1

\* s.split(sep) for a one-character separator: the pieces between separators
SplitOn(s, sep) ==
    LET cuts == {i \in 1..Len(s) : s[i] = sep}
        bounds == cuts \cup {0, Len(s) + 1}
    IN  [n \in 1..(Cardinality(cuts) + 1) |->
            SubSeq(s, NthOf(bounds, n) + 1, NthOf(bounds, n + 1) - 1)]

\* s.split(): the maximal runs of non-whitespace characters
SplitWords(s) ==
    LET starts == {i \in 1..Len(s) : ~IsSpace(s[i]) /\ (i = 1 \/ IsSpace(s[i - 1]))}
        ends == {i \in 1..Len(s) : ~IsSpace(s[i]) /\ (i = Len(s) \/ IsSpace(s[i + 1]))}
    IN  [n \in 1..Cardinality(starts) |-> SubSeq(s, NthOf(starts, n), NthOf(ends, n))]

\* sep.join(pieces)
RECURSIVE Join(_, _)
Join(pieces, sep) ==
    IF pieces = <<>> THEN <<>>
    ELSE IF Len(pieces) = 1 THEN Head(pieces)
    ELSE Head(pieces) \o sep \o Join(Tail(pieces), sep)

\* s.replace(old, ""): every non-overlapping occurrence of old removed, left to right
RECURSIVE RemoveAll(_, _)
RemoveAll(s, old) ==
    IF s = <<>> \/ old = <<>> THEN s
    ELSE IF StartsWith(s, old)
         THEN RemoveAll(SubSeq(s, Len(old) + 1, Len(s)), old)
         ELSE << Head(s) >> \o RemoveAll(Tail(s), old)

\* seq[a:b] for 0 <= a and 0 <= b (Python indices)
PySlice(seq, a, b) ==
    SubSeq(seq, a + 1, IF b < Len(seq) THEN b ELSE Len(seq))

\* seq[:n] for a Python list
SliceTo(seq, n) ==
    IF n >= 0
    THEN SubSeq(seq, 1, IF n < Len(seq) THEN n ELSE Len(seq))
    ELSE SubSeq(seq, 1, IF Len(seq) + n > 0 THEN Len(seq) + n ELSE 0)

(***************************************************************************)
(* Curriculum matcher                                                      *)
(***************************************************************************)
\* Topics a knowledge base file may hold (CurriculumTopic records).
TopicPool == {
    [id |-> "t1", name |-> <<"A","b">>, description |-> <<"a"," ","b">>,
     keywords |-> << <<"a">>, <<"a","b">> >>],
    [id |-> "t2", name |-> <<"B">>, description |-> <<>>,
     keywords |-> << <<"b">>, <<"A","B">> >>],
    [id |-> "t3", name |-> <<"b","a">>, description |-> <<"a","b"," ","b","a">>,
     keywords |-> << <<"b","a">> >>],
    [id |-> "t4", name |-> <<"z">>, description |-> <<"z","a">>,
     keywords |-> << <<"z">> >>] }

\* Keywords a caller may pass.
KeywordPool == { <<>>, <<"a">>, <<"A"," ">>, <<" ","a","b">>, <<"b">>,
                 <<"b","a">>, <<"d">> }

RECURSIVE SeqsUpTo(_, _)
SeqsUpTo(S, n) ==
    IF n = 0 THEN { <<>> }
    ELSE LET shorter == SeqsUpTo(S, n - 1)
         IN  shorter \cup { Append(s, x) : s \in shorter, x \in S }

DistinctIds(ts) ==
    \A i, j \in 1..Len(ts) : i # j => ts[i].id # ts[j].id

\* normalized_keywords = [kw.lower().strip() for kw in keywords]
NormalizeKeywords(keywords) ==
    [i \in 1..Len(keywords) |-> Strip(Lower(keywords[i]))]

\* topic_keywords = [kw.lower() for kw in topic.keywords]
TopicKeywords(topic) ==
    [i \in 1..Len(topic.keywords) |-> Lower(topic.keywords[i])]

\* (mutant) the +5 bonus counted once per input keyword
PartialScoreOnce(kw, topic_keywords) ==
    IF \E i \in 1..Len(topic_keywords) :
           Contains(topic_keywords[i], kw) \/ Contains(kw, topic_keywords[i])
    THEN 5 ELSE 0

\* for topic_kw in topic_keywords: if kw in topic_kw or topic_kw in kw: score += 5
RECURSIVE PartialScore(_, _)
PartialScore(kw, topic_keywords) ==
    IF topic_keywords = <<>> THEN 0
    ELSE (IF Contains(Head(topic_keywords), kw) \/ Contains(kw, Head(topic_keywords))
          THEN 5 ELSE 0)
         + PartialScore(kw, Tail(topic_keywords))

\* the body of "for kw in normalized_keywords" for one kw
KeywordScore(kw, topic) ==
    LET topic_keywords == TopicKeywords(topic)
    IN  (IF \E i \in 1..Len(topic_keywords) : topic_keywords[i] = kw THEN 10 ELSE 0)
        + PartialScore(kw, topic_keywords)
        + (IF Contains(Lower(topic.name), kw) THEN 8 ELSE 0)
        + (IF Contains(Lower(topic.description), kw) THEN 3 ELSE 0)

RECURSIVE TopicScore(_, _)
TopicScore(topic, normalized_keywords) ==
    IF normalized_keywords = <<>> THEN 0
    ELSE KeywordScore(Head(normalized_keywords), topic)
         + TopicScore(topic, Tail(normalized_keywords))

\* the scores dict: (topic_id, score) items in insertion order, score > 0 only
RECURSIVE ScoreItems(_, _)
ScoreItems(ts, normalized_keywords) ==
    IF ts = <<>> THEN <<>>
    ELSE LET score == TopicScore(Head(ts), normalized_keywords)
             rest == ScoreItems(Tail(ts), normalized_keywords)
         IN  IF score > 0
             THEN << [id |-> Head(ts).id, score |-> score] >> \o rest
             ELSE rest

\* (mutant) the sort without reverse=True
RECURSIVE InsertAscending(_, _)
InsertAscending(item, sorted) ==
    IF sorted = <<>> THEN << item >>
    ELSE IF Head(sorted).score <= item.score
         THEN << Head(sorted) >> \o InsertAscending(item, Tail(sorted))
         ELSE << item >> \o sorted

\* (mutant) a descending sort that puts a later item before its equals
RECURSIVE InsertDescendingTiesReversed(_, _)
InsertDescendingTiesReversed(item, sorted) ==
    IF sorted = <<>> THEN << item >>
    ELSE IF Head(sorted).score > item.score
         THEN << Head(sorted) >> \o InsertDescendingTiesReversed(item, Tail(sorted))
         ELSE << item >> \o sorted

\* sorted(items, key=score, reverse=True): stable, descending
RECURSIVE InsertDescending(_, _)
InsertDescending(item, sorted) ==
    IF sorted = <<>> THEN << item >>
    ELSE IF Head(sorted).score >= item.score
         THEN << Head(sorted) >> \o InsertDescending(item, Tail(sorted))
         ELSE << item >> \o sorted

RECURSIVE SortByScoreFrom(_, _)
SortByScoreFrom(items, acc) ==
    IF items = <<>> THEN acc
    ELSE SortByScoreFrom(Tail(items), InsertDescending(Head(items), acc))

SortedByScore(items) == SortByScoreFrom(items, <<>>)

TopicById(ts, id) == ts[CHOOSE i \in 1..Len(ts) : ts[i].id = id]

\* CurriculumKnowledgeBase.find_matching_topics: the list it returns
FindMatchingTopics(ts, keywords, max_results) ==
    LET scores == ScoreItems(ts, NormalizeKeywords(keywords))
        sorted_topics == SliceTo(SortedByScore(scores), max_results)
    IN  [i \in 1..Len(sorted_topics) |-> TopicById(ts, sorted_topics[i].id)]

MatcherInit ==
    /\ topics \in { ts \in SeqsUpTo(TopicPool, MaxTopics) : DistinctIds(ts) }
    /\ mKeywords \in SeqsUpTo(KeywordPool, MaxKeywords)
    /\ mMaxResults \in 0..MaxCap
    /\ mScores = <<>>
    /\ mResult = <<>>
    /\ mCalled = FALSE

MatcherIdle ==
    /\ topics = <<>>
    /\ mKeywords = <<>>
    /\ mMaxResults = 0
    /\ mScores = <<>>
    /\ mResult = <<>>
    /\ mCalled = FALSE

\* the call kb.find_matching_topics(mKeywords, mMaxResults)
CallFindMatchingTopics ==
    /\ ~mCalled
    /\ mScores' = ScoreItems(topics, NormalizeKeywords(mKeywords))
    /\ mResult' = FindMatchingTopics(topics, mKeywords, mMaxResults)
    /\ mCalled' = TRUE
    /\ UNCHANGED <<topics, mKeywords, mMaxResults>>
    /\ UNCHANGED exceptMatcher

(***************************************************************************)
(* Retry wrapper (utils/retry.py, on tenacity)                             *)
(***************************************************************************)
\* The exception classes the wrapped functions raise.
ExceptionKinds == {"ValueError", "APICallError", "RateLimitError"}

\* isinstance(exception of class kind, cls)
IsInstance(kind, cls) ==
    \/ cls = "Exception"
    \/ cls = kind
    \/ cls = "APICallError" /\ kind \in {"RateLimitError", "AuthenticationError"}

\* RetryConfig.retry_exceptions: the default (Exception,) and restricted ones
RetryExceptionSets == { {"Exception"}, {"APICallError"}, {"ValueError", "RateLimitError"} }

\* with_retry's defaults
DefaultMaxAttempts == 3
MinWaitSeconds == 1
MaxWaitSeconds == 10
ExponentialBase == 2

\* (mutant) every exception is retried, whatever the configured classes
RetryIfAnyException(kind, exceptions) == TRUE

\* retry=retry_if_exception_type(config.retry_exceptions)
RetryIfExceptionType(kind, exceptions) ==
    \E cls \in exceptions : IsInstance(kind, cls)

\* (mutant) gives up one attempt early
StopOneAttemptEarly(attempt, max_attempts) == attempt + 1 >= max_attempts

\* (mutant) allows one attempt too many
StopOneAttemptLate(attempt, max_attempts) == attempt > max_attempts

\* stop=stop_after_attempt(config.max_attempts)
StopAfterAttempt(attempt, max_attempts) == attempt >= max_attempts

RECURSIVE Power(_, _)
Power(b, n) == IF n = 0 THEN 1 ELSE b * Power(b, n - 1)

\* wait=wait_exponential(multiplier=min_wait, min=min_wait, max=max_wait, exp_base=2)
WaitExponential(attempt) ==
    LET exp == MinWaitSeconds * Power(ExponentialBase, attempt - 1)
        low == IF exp < MinWaitSeconds THEN MinWaitSeconds ELSE exp
    IN  IF low > MaxWaitSeconds THEN MaxWaitSeconds ELSE low

\* reraise=True
Reraise == TRUE

\* What tenacity raises once it stops: the last exception itself under
\* reraise=True, a RetryError holding the last attempt otherwise.
TenacityStopRaises(last) ==
    IF Reraise THEN last
    ELSE [kind |-> "RetryError", call |-> last.call, last_attempt |-> last]

\* async_wrapper / sync_wrapper: except RetryError as e: raise e.last_attempt.exception()
WrapperRaises(raised) ==
    IF raised.kind = "RetryError" THEN raised.last_attempt ELSE raised

\* What tenacity does with an attempt that raised: "raise" (not retryable),
\* "stop" (attempts exhausted) or "sleep".
AfterFailure(kind, attempt, max_attempts, exceptions) ==
    IF ~RetryIfExceptionType(kind, exceptions) THEN "raise"
    ELSE IF StopAfterAttempt(attempt, max_attempts) THEN "stop"
    ELSE "sleep"

\* the exception the wrapped function raises at its n-th invocation
ExceptionOfCall(n) == [kind |-> rFailKinds[n], call |-> n]

RetryInit ==
    /\ rMax \in 1..MaxAttemptsBound
    /\ rExceptions \in RetryExceptionSets
    /\ rFailKinds \in SeqsUpTo(ExceptionKinds, MaxFailures)
    /\ rSuccess \in {"v1", "v2"}
    /\ rCalls = 0
    /\ rSlept = <<>>
    /\ rPc = "call"
    /\ rOutcome = [kind |-> "none"]

RetryIdle ==
    /\ rMax = DefaultMaxAttempts
    /\ rExceptions = {"Exception"}
    /\ rFailKinds = <<>>
    /\ rSuccess = "v1"
    /\ rCalls = 0
    /\ rSlept = <<>>
    /\ rPc = "done"
    /\ rOutcome = [kind |-> "none"]

\* an invocation of the wrapped function that returns: the wrapper returns its value
RetryCallReturns ==
    /\ rPc = "call"
    /\ rCalls + 1 > Len(rFailKinds)
    /\ rCalls' = rCalls + 1
    /\ rPc' = "done"
    /\ rOutcome' = [kind |-> "returned", value |-> rSuccess]
    /\ UNCHANGED <<rMax, rExceptions, rFailKinds, rSuccess, rSlept>>
    /\ UNCHANGED exceptRetry

\* an invocation that raises an exception that is not retried
RetryCallRaisesNotRetryable ==
    /\ rPc = "call"
    /\ rCalls + 1 <= Len(rFailKinds)
    /\ AfterFailure(rFailKinds[rCalls + 1], rCalls + 1, rMax, rExceptions) = "raise"
    /\ rCalls' = rCalls + 1
    /\ rPc' = "done"
    /\ rOutcome' = [kind |-> "raised",
                    exception |-> WrapperRaises(ExceptionOfCall(rCalls + 1))]
    /\ UNCHANGED <<rMax, rExceptions, rFailKinds, rSuccess, rSlept>>
    /\ UNCHANGED exceptRetry

\* an invocation that raises at the last attempt
RetryCallRaisesLastAttempt ==
    /\ rPc = "call"
    /\ rCalls + 1 <= Len(rFailKinds)
    /\ AfterFailure(rFailKinds[rCalls + 1], rCalls + 1, rMax, rExceptions) = "stop"
    /\ rCalls' = rCalls + 1
    /\ rPc' = "done"
    /\ rOutcome' = [kind |-> "raised",
                    exception |-> WrapperRaises(
                                      TenacityStopRaises(ExceptionOfCall(rCalls + 1)))]
    /\ UNCHANGED <<rMax, rExceptions, rFailKinds, rSuccess, rSlept>>
    /\ UNCHANGED exceptRetry

\* an invocation that raises within the budget: log a warning, start the sleep
RetryCallRaisesSleeps ==
    /\ rPc = "call"
    /\ rCalls + 1 <= Len(rFailKinds)
    /\ AfterFailure(rFailKinds[rCalls + 1], rCalls + 1, rMax, rExceptions) = "sleep"
    /\ rCalls' = rCalls + 1
    /\ rSlept' = Append(rSlept, WaitExponential(rCalls + 1))
    /\ rPc' = "sleep"
    /\ UNCHANGED <<rMax, rExceptions, rFailKinds, rSuccess, rOutcome>>
    /\ UNCHANGED exceptRetry

\* the sleep ends: the wrapped function is invoked again
RetryWakes ==
    /\ rPc = "sleep"
    /\ rPc' = "call"
    /\ UNCHANGED <<rMax, rExceptions, rFailKinds, rSuccess, rCalls, rSlept, rOutcome>>
    /\ UNCHANGED exceptRetry

(***************************************************************************)
(* Quiz generator (services/quiz_generator.py, models/schemas.py)          *)
(***************************************************************************)
\* (mutant) an age group outside the map is given the easy tier
DifficultyUnknownEasy(age_group) ==
    CASE age_group = "5-7" -> "easy"
      [] age_group = "8-10" -> "medium"
      [] age_group = "11-13" -> "hard"
      [] OTHER -> "easy"

\* QuizGenerator.DIFFICULTY_MAP.get(age_group, "medium")
Difficulty(age_group) ==
    CASE age_group = "5-7" -> "easy"
      [] age_group = "8-10" -> "medium"
      [] age_group = "11-13" -> "hard"
      [] OTHER -> "medium"

AgeGroups == {"5-7", "8-10", "11-13", "14-16"}

\* @with_retry(max_attempts=3) on generate_quiz
QuizMaxAttempts == 3

\* (mutant) the clamp without its floor: min(5, num_questions)
ClampWithoutFloor(n) == IF n < 5 THEN n ELSE 5

\* num_questions = max(1, min(5, num_questions))
ClampNumQuestions(n) ==
    LET low == IF n < 5 THEN n ELSE 5
    IN  IF low > 1 THEN low ELSE 1

\* One entry of the reply's "questions" list: which keys it has, whether the
\* values have the types QuizQuestion takes, whether int() accepts the
\* correct_answer, the options, and int(correct_answer).
QData(has_q, has_o, has_a, types_ok, int_ok, options, answer) ==
    [has_question |-> has_q, has_options |-> has_o, has_answer |-> has_a,
     types_ok |-> types_ok, int_ok |-> int_ok,
     options |-> options, correct_answer |-> answer]

Opts(n) == [i \in 1..n |-> "option"]

GoodQ == QData(TRUE, TRUE, TRUE, TRUE, TRUE, Opts(4), 2)
SloppyQ == QData(TRUE, TRUE, TRUE, TRUE, TRUE, Opts(5), 4)

QDataPool == {
    GoodQ,
    SloppyQ,
    QData(FALSE, TRUE, TRUE, TRUE, TRUE, Opts(4), 1),
    QData(TRUE, FALSE, TRUE, TRUE, TRUE, <<>>, 1),
    QData(TRUE, TRUE, FALSE, TRUE, TRUE, Opts(4), 0),
    QData(TRUE, TRUE, TRUE, TRUE, TRUE, Opts(0), 3),
    QData(TRUE, TRUE, TRUE, TRUE, TRUE, Opts(3), 0),
    QData(TRUE, TRUE, TRUE, TRUE, TRUE, Opts(4), -1),
    QData(TRUE, TRUE, TRUE, TRUE, FALSE, Opts(4), 0),
    QData(TRUE, TRUE, TRUE, FALSE, TRUE, Opts(4), 1) }

\* The "questions" lists of the replies: every list of up to MaxVariedQuestions
\* entries, and longer lists of one repeated entry.
QuestionLists ==
    SeqsUpTo(QDataPool, MaxVariedQuestions)
    \cup { [i \in 1..n |-> q] : n \in 3..MaxReplyQuestions, q \in {GoodQ, SloppyQ} }

\* What the reply text holds between its code fences: text that is not JSON,
\* JSON that is not an object, an object without or with a "questions" list.
ReplyBodies ==
    { [kind |-> "text"], [kind |-> "array"], [kind |-> "object", has_questions |-> FALSE] }
    \cup { [kind |-> "object", has_questions |-> TRUE, questions |-> qs] :
             qs \in QuestionLists }

\* The fences around it: none, ```json ... ```, ``` ... ```.
Fences == {"none", "json", "bare"}

QuizReplies == { [kind |-> "reply", fence |-> f, body |-> b] : f \in Fences, b \in ReplyBodies }

\* response.strip(); drop a leading ```json; drop a trailing ```; json.loads:
\* TRUE when json.loads accepts what is left. A bare ``` fence keeps its
\* opening ``` and is not JSON.
JsonLoads(reply) ==
    /\ reply.body.kind # "text"
    /\ reply.fence # "bare"

\* the fixed fallback question
FallbackQuestion ==
    [question |-> "What did you learn from this story?",
     options |-> <<"Something new and interesting", "I'm not sure",
                   "Nothing new", "I need to read it again">>,
     correct_answer |-> 0,
     explanation |-> "Every story teaches us something new!"]

\* while len(options) < 4: options.append("Not applicable"); options = options[:4]
RepairOptions(options) ==
    IF Len(options) # 4
    THEN SliceTo(options \o [i \in 1..(4 - Len(options)) |-> "Not applicable"], 4)
    ELSE options

\* if correct_idx < 0 or correct_idx > 3: correct_idx = 0
RepairAnswer(correct_idx) ==
    IF correct_idx < 0 \/ correct_idx > 3 THEN 0 ELSE correct_idx

\* QuizQuestion's field constraints: 4 options, correct_answer in 0..3
ValidQuizQuestion(q) ==
    /\ Len(q.options) >= 4
    /\ Len(q.options) <= 4
    /\ q.correct_answer >= 0
    /\ q.correct_answer <= 3

\* The loop of _parse_quiz_response over data["questions"]: the questions
\* built so far, or the exception that ended it.
RECURSIVE ParseQuestions(_, _)
ParseQuestions(q_list, questions) ==
    IF q_list = <<>> THEN [ok |-> TRUE, questions |-> questions]
    ELSE LET q_data == Head(q_list)
         IN  IF ~(q_data.has_question /\ q_data.has_options /\ q_data.has_answer)
             THEN ParseQuestions(Tail(q_list), questions)
             ELSE IF ~q_data.int_ok
             THEN [ok |-> FALSE, error |-> "ValueError"]
             ELSE LET q == [question |-> "question",
                            options |-> RepairOptions(q_data.options),
                            correct_answer |-> RepairAnswer(q_data.correct_answer),
                            explanation |-> ""]
                  IN  IF ~(q_data.types_ok /\ ValidQuizQuestion(q))
                      THEN [ok |-> FALSE, error |-> "ValidationError"]
                      ELSE ParseQuestions(Tail(q_list), Append(questions, q))

\* (mutant) a reply that is not JSON raises instead of yielding the fallback
ParseQuizResponseNoFallback(reply) ==
    IF ~JsonLoads(reply) THEN [ok |-> FALSE, error |-> "JSONDecodeError"]
    ELSE IF reply.body.kind # "object" THEN [ok |-> FALSE, error |-> "AttributeError"]
    ELSE IF ~reply.body.has_questions THEN [ok |-> TRUE, questions |-> <<>>]
    ELSE ParseQuestions(reply.body.questions, <<>>)

\* QuizGenerator._parse_quiz_response
ParseQuizResponse(reply) ==
    IF ~JsonLoads(reply) THEN [ok |-> TRUE, questions |-> << FallbackQuestion >>]
    ELSE IF reply.body.kind # "object" THEN [ok |-> FALSE, error |-> "AttributeError"]
    ELSE IF ~reply.body.has_questions THEN [ok |-> TRUE, questions |-> <<>>]
    ELSE ParseQuestions(reply.body.questions, <<>>)

\* (mutant) QuizResponse without the min_length / max_length of questions
ValidQuizResponseAnyLength(quiz) ==
    \A i \in 1..Len(quiz.questions) : ValidQuizQuestion(quiz.questions[i])

\* QuizResponse's field constraints: 1 to 5 questions, a known difficulty
ValidQuizResponse(quiz) ==
    /\ Len(quiz.questions) >= 1
    /\ Len(quiz.questions) <= 5
    /\ quiz.difficulty \in {"easy", "medium", "hard"}
    /\ \A i \in 1..Len(quiz.questions) : ValidQuizQuestion(quiz.questions[i])

\* The body of generate_quiz once the vendor has replied: the QuizResponse it
\* returns, or the APICallError its except clause raises.
GenerateQuizFromReply(story, requested, reply) ==
    LET num_questions == ClampNumQuestions(requested)
        difficulty == Difficulty(story.age_group)
        parsed == ParseQuizResponse(reply)
    IN  IF ~parsed.ok
        THEN [ok |-> FALSE, error |-> "APICallError", cause |-> parsed.error]
        ELSE LET quiz == [questions |-> SliceTo(parsed.questions, num_questions),
                          story_id |-> story.story_id,
                          difficulty |-> difficulty]
             IN  IF ValidQuizResponse(quiz)
                 THEN [ok |-> TRUE, quiz |-> quiz]
                 ELSE [ok |-> FALSE, error |-> "APICallError", cause |-> "ValidationError"]

\* What ends an invocation of generate_quiz's body: the vendor call raising,
\* or the vendor's reply.
VendorOutcomes == { [kind |-> "raises"] } \cup QuizReplies

QuizAttempt(story, requested, outcome) ==
    IF outcome.kind = "raises"
    THEN [ok |-> FALSE, error |-> "APICallError", cause |-> "vendor"]
    ELSE GenerateQuizFromReply(story, requested, outcome)

QuizInit ==
    /\ qStory \in { [story_id |-> "s1", age_group |-> a] : a \in AgeGroups }
    /\ qNumQuestions \in (-1)..MaxNumQuestions
    /\ qCalls = 0
    /\ qFailed = 0
    /\ qSlept = <<>>
    /\ qPc = "call"
    /\ qReply = [kind |-> "none"]
    /\ qOutcome = [kind |-> "none"]

QuizIdle ==
    /\ qStory = [story_id |-> "s1", age_group |-> "8-10"]
    /\ qNumQuestions = 3
    /\ qCalls = 0
    /\ qFailed = 0
    /\ qSlept = <<>>
    /\ qPc = "done"
    /\ qReply = [kind |-> "none"]
    /\ qOutcome = [kind |-> "none"]

\* generate_quiz's body starts: clamp, build the prompt, await the vendor
QuizCallsVendor ==
    /\ qPc = "call"
    /\ qCalls' = qCalls + 1
    /\ qReply' = [kind |-> "none"]
    /\ qPc' = "vendor"
    /\ UNCHANGED <<qStory, qNumQuestions, qFailed, qSlept, qOutcome>>
    /\ UNCHANGED exceptQuiz

\* the vendor call ends and the body returns a QuizResponse
QuizReturns ==
    /\ qPc = "vendor"
    /\ \E outcome \in VendorOutcomes :
          LET res == QuizAttempt(qStory, qNumQuestions, outcome)
          IN  /\ res.ok
              /\ qReply' = outcome
              /\ qOutcome' = [kind |-> "returned", quiz |-> res.quiz]
    /\ qPc' = "done"
    /\ UNCHANGED <<qStory, qNumQuestions, qCalls, qFailed, qSlept>>
    /\ UNCHANGED exceptQuiz

\* the vendor call ends, the body raises APICallError, the wrapper sleeps
QuizFailsSleeps ==
    /\ qPc = "vendor"
    /\ \E outcome \in VendorOutcomes :
          LET res == QuizAttempt(qStory, qNumQuestions, outcome)
          IN  /\ ~res.ok
              /\ AfterFailure(res.error, qCalls, QuizMaxAttempts, {"Exception"}) = "sleep"
              /\ qReply' = outcome
    /\ qFailed' = qFailed + 1
    /\ qSlept' = Append(qSlept, WaitExponential(qCalls))
    /\ qPc' = "sleep"
    /\ UNCHANGED <<qStory, qNumQuestions, qCalls, qOutcome>>
    /\ UNCHANGED exceptQuiz

\* the vendor call ends, the body raises APICallError at the last attempt
QuizFailsLastAttempt ==
    /\ qPc = "vendor"
    /\ \E outcome \in VendorOutcomes :
          LET res == QuizAttempt(qStory, qNumQuestions, outcome)
          IN  /\ ~res.ok
              /\ AfterFailure(res.error, qCalls, QuizMaxAttempts, {"Exception"}) # "sleep"
              /\ qReply' = outcome
              /\ qOutcome' = [kind |-> "raised",
                              exception |-> WrapperRaises(TenacityStopRaises(
                                  [kind |-> res.error, call |-> qCalls])).kind,
                              cause |-> res.cause]
    /\ qFailed' = qFailed + 1
    /\ qPc' = "done"
    /\ UNCHANGED <<qStory, qNumQuestions, qCalls, qSlept>>
    /\ UNCHANGED exceptQuiz

\* the sleep ends: the body is invoked again
QuizWakes ==
    /\ qPc = "sleep"
    /\ qPc' = "call"
    /\ UNCHANGED <<qStory, qNumQuestions, qCalls, qFailed, qSlept, qReply, qOutcome>>
    /\ UNCHANGED exceptQuiz

(***************************************************************************)
(* Story engine (services/story_engine.py)                                 *)
(***************************************************************************)
TitleMarker == <<"T","I","T","L","E",":">>
StoryMarker == <<"S","T","O","R","Y",":">>
SummaryMarker == <<"S","U","M","M","A","R","Y",":">>
HeadingMarker == <<"#"," ">>
DefaultTitle == <<"A","n"," ","A","m","a","z","i","n","g"," ",
                  "A","d","v","e","n","t","u","r","e">>
Ellipsis == <<".",".",".">>

\* words = content.split()[:50]
SummaryWords == 50

\* "Find title": the first line that starts with TITLE: or with "# "
RECURSIVE FindTitle(_)
FindTitle(lines) ==
    IF lines = <<>> THEN DefaultTitle
    ELSE IF StartsWith(Head(lines), TitleMarker)
         THEN Strip(RemoveAll(Head(lines), TitleMarker))
    ELSE IF StartsWith(Upper(Head(lines)), HeadingMarker)
         THEN Strip(SubSeq(Head(lines), 3, Len(Head(lines))))
    ELSE FindTitle(Tail(lines))

\* "Find story content": the loop over the lines from 0-based index i, giving
\* (story_start, story_end)
RECURSIVE FindStory(_, _, _, _)
FindStory(lines, i, story_start, story_end) ==
    IF i >= Len(lines) THEN <<story_start, story_end>>
    ELSE IF Contains(Upper(lines[i + 1]), StoryMarker)
         THEN FindStory(lines, i + 1, i + 1, story_end)
    ELSE IF Contains(Upper(lines[i + 1]), SummaryMarker) /\ story_start >= 0
         THEN <<story_start, i>>
    ELSE FindStory(lines, i + 1, story_start, story_end)

\* "Find summary": the lines after the first line that holds SUMMARY:
RECURSIVE FindSummary(_, _)
FindSummary(lines, i) ==
    IF i >= Len(lines) THEN <<>>
    ELSE IF Contains(Upper(lines[i + 1]), SummaryMarker)
         THEN Strip(Join(PySlice(lines, i + 1, Len(lines)), <<"\n">>))
    ELSE FindSummary(lines, i + 1)

\* (mutant) without a STORY: line the content is the reply stripped
ParseStoryResponseStripped(response) ==
    LET lines == SplitOn(Strip(response), "\n")
        span == FindStory(lines, 0, -1, Len(lines))
        content == Strip(Join(PySlice(lines, IF span[1] >= 0 THEN span[1] ELSE 0,
                                      span[2]), <<"\n">>))
        found == FindSummary(lines, 0)
        summary == IF found = <<>>
                   THEN Join(SliceTo(SplitWords(content), SummaryWords), <<" ">>)
                        \o Ellipsis
                   ELSE found
    IN  [title |-> FindTitle(lines), content |-> content, summary |-> summary]

\* StoryEngine._parse_story_response
ParseStoryResponse(response) ==
    LET lines == SplitOn(Strip(response), "\n")
        span == FindStory(lines, 0, -1, Len(lines))
        content == IF span[1] >= 0
                   THEN Strip(Join(PySlice(lines, span[1], span[2]), <<"\n">>))
                   ELSE response
        found == FindSummary(lines, 0)
        summary == IF found = <<>>
                   THEN Join(SliceTo(SplitWords(content), SummaryWords), <<" ">>)
                        \o Ellipsis
                   ELSE found
    IN  [title |-> FindTitle(lines), content |-> content, summary |-> summary]

\* (mutant) the characters of the content are counted, not its words
WordCountOfCharacters(content) == Len(content)

\* word_count = len(content.split())
WordCount(content) == Len(SplitWords(content))

\* The body of StoryEngine.generate_story once the vendor has replied: the
\* StoryResponse it returns.
GenerateStoryFromReply(story_id, analysis, age_group, response) ==
    LET parsed == ParseStoryResponse(response)
    IN  [story_id |-> story_id,
         title |-> parsed.title,
         content |-> parsed.content,
         summary |-> parsed.summary,
         concepts_covered |-> SliceTo(analysis.educational_concepts, 5),
         age_group |-> age_group,
         word_count |-> WordCount(parsed.content),
         quiz |-> [kind |-> "none"],
         audio_available |-> FALSE]

(***************************************************************************)
(* Story router and cache (routers/story.py)                               *)
(***************************************************************************)
\* Vendor replies to the story prompt.
StoryReplies == {
    \* "TITLE: T\nSTORY:\na b\n c\nSUMMARY:\ns"
    <<"T","I","T","L","E",":"," ","T","\n","S","T","O","R","Y",":","\n",
      "a"," ","b","\n"," ","c","\n","S","U","M","M","A","R","Y",":","\n","s">>,
    \* " a b  c\n": no marker
    <<" ","a"," ","b"," "," ","c","\n">> }

\* The educational_concepts of the analyses (found by the AI processor, or
\* posted to /from-analysis).
Analyses == {
    [educational_concepts |-> <<"c1", "c2", "c3", "c4", "c5", "c6">>] }

\* StoryRequest.age_group: Literal["5-7", "8-10", "11-13"]
RequestAgeGroups == {"5-7"}

\* /from-analysis takes any age_group string
QueryAgeGroups == {"14-16"}

InputTypes == {"sketch", "diagram", "keyword"}

\* StoryRequest.model_post_init
StoryRequestValid(input_type, has_image, has_keywords) ==
    IF input_type \in {"sketch", "diagram"} THEN has_image ELSE has_keywords

\* generate_story, lines 51-67: the call it awaits first, or the
\* HTTPException(400) it raises inside its try block
GenerateFirstStep(input_type, has_image, has_keywords) ==
    IF input_type \in {"sketch", "diagram"}
    THEN (IF ~has_image THEN "raise400" ELSE "analyze_image")
    ELSE (IF ~has_keywords THEN "raise400" ELSE "process_keywords")

\* Vendor replies to the quiz prompt, as the router's requests meet them.
RouterQuizReplies == {
    [kind |-> "reply", fence |-> "json",
     body |-> [kind |-> "object", has_questions |-> TRUE,
               questions |-> <<GoodQ, SloppyQ, GoodQ>>]],
    [kind |-> "reply", fence |-> "none", body |-> [kind |-> "text"]] }

\* What await quiz_generator.generate_quiz(story, num_questions) can return.
QuizzesFor(story, num_questions) ==
    { GenerateQuizFromReply(story, num_questions, reply).quiz :
        reply \in { r \in RouterQuizReplies :
                      GenerateQuizFromReply(story, num_questions, r).ok } }

NoQuiz == [kind |-> "none"]

\* str(uuid.uuid4()): an id that no StoryResponse alive has. The object's
\* reference is the same number.
NewStoryId == CHOOSE n \in 1..(Cardinality(DOMAIN heap) + 1) : n \notin DOMAIN heap

\* The story ids a client asks for: those of the stories alive (cached or
\* not yet), and one that no story has.
StoryIds == DOMAIN heap \cup { NewStoryId }

CacheKeys == { story_cache[i].key : i \in 1..Len(story_cache) }

\* _story_cache.get(story_id): the reference stored, 0 for None
CacheGet(key) ==
    IF key \in CacheKeys
    THEN story_cache[CHOOSE i \in 1..Len(story_cache) : story_cache[i].key = key].ref
    ELSE 0

\* (mutant) the insertion lands in the slot of the first key
CachePutOverFirst(cache, key, ref) ==
    IF cache = << >> THEN << [key |-> key, ref |-> ref] >>
    ELSE [cache EXCEPT ![1] = [key |-> cache[1].key, ref |-> ref]]

\* (mutant) the insertion empties the dict first
CachePutAlone(cache, key, ref) == << [key |-> key, ref |-> ref] >>

\* _story_cache[key] = story: replace in place, or append
CachePut(cache, key, ref) ==
    IF \E i \in 1..Len(cache) : cache[i].key = key
    THEN [i \in 1..Len(cache) |->
             IF cache[i].key = key THEN [key |-> key, ref |-> ref] ELSE cache[i]]
    ELSE Append(cache, [key |-> key, ref |-> ref])

Request(op, pc, age_group, include_quiz, num_questions, key, story, analysis) ==
    [op |-> op, pc |-> pc, age_group |-> age_group, include_quiz |-> include_quiz,
     num_questions |-> num_questions, key |-> key, story |-> story,
     analysis |-> analysis]

\* A response: the endpoint, the status, the story id it is about, the
\* stories of its body, the quiz of its body.
Response(op, status, key, body, quiz) ==
    [op |-> op, status |-> status, key |-> key, body |-> body, quiz |-> quiz]

NoAnalysis == [educational_concepts |-> <<>>]

\* the function f without its entry for x
Without(f, x) == [y \in (DOMAIN f) \ {x} |-> f[y]]

\* the function f with the entry x -> v added or replaced
With(f, x, v) == [y \in (DOMAIN f) \cup {x} |-> IF y = x THEN v ELSE f[y]]

\* no response is sent in this step
NoResponse == Response("none", 0, 0, << >>, NoQuiz)

RouterInit ==
    /\ heap = << >>
    /\ story_cache = << >>
    /\ requests = << >>
    /\ nRequests = 0
    /\ http = NoResponse
    /\ returned = {}

RouterIdle == RouterInit

\* The stories /generate can have returned and cached as the first of a
\* server, from the reply that carries a title: story 1 with its quiz of
\* three questions.
FirstStories ==
    UNION { { [GenerateStoryFromReply(1, analysis, age_group, response)
                 EXCEPT !.quiz = quiz] :
                quiz \in QuizzesFor(GenerateStoryFromReply(1, analysis, age_group, response),
                                    3) } :
            analysis \in Analyses, age_group \in RequestAgeGroups,
            response \in { reply \in StoryReplies : StartsWith(reply, TitleMarker) } }

\* A server that has generated, cached and returned one story and has no
\* request in flight; nRequests counts the requests from here on.
RouterCachedInit ==
    /\ \E story \in FirstStories : heap = With(<< >>, 1, story)
    /\ story_cache = CachePut(<< >>, 1, 1)
    /\ requests = << >>
    /\ nRequests = 0
    /\ http = NoResponse
    /\ returned = {1}

\* The age groups of the stories a cache may hold: what StoryRequest admits
\* (/generate), and a string only /from-analysis takes.
CachedAgeGroups == {"5-7", "8-10", "11-13"} \cup QueryAgeGroups

\* The stories a handler can have cached with a quiz as the first of a
\* server, of every age group.
AgedStories ==
    UNION { { [GenerateStoryFromReply(1, analysis, age_group, response)
                 EXCEPT !.quiz = quiz] :
                quiz \in QuizzesFor(GenerateStoryFromReply(1, analysis, age_group, response),
                                    3) } :
            analysis \in Analyses, age_group \in CachedAgeGroups,
            response \in { reply \in StoryReplies : StartsWith(reply, TitleMarker) } }

\* A server that has cached and returned one story, has no request in
\* flight, and takes one more request.
RouterAgedInit ==
    /\ \E story \in AgedStories : heap = With(<< >>, 1, story)
    /\ story_cache = CachePut(<< >>, 1, 1)
    /\ requests = << >>
    /\ nRequests = MaxRequests - 1
    /\ http = NoResponse
    /\ returned = {1}

\* (mutant) the quiz lands on every story
SetQuizOfAll(hp, ref, quiz) == [x \in DOMAIN hp |-> [hp[x] EXCEPT !.quiz = quiz]]

\* story.quiz = quiz
SetQuiz(hp, ref, quiz) == [hp EXCEPT ![ref].quiz = quiz]

\* (mutant) the story generated so far is cached before the error is raised
FailsAfterCaching(r) ==
    /\ http' = Response(requests[r].op, 500, 0, << >>, NoQuiz)
    /\ requests' = Without(requests, r)
    /\ heap' = heap
    /\ story_cache' = IF requests[r].story = 0 THEN story_cache
                      ELSE CachePut(story_cache, heap[requests[r].story].story_id,
                                    requests[r].story)
    /\ UNCHANGED <<nRequests, returned>>

\* The HTTPException(500) both story handlers raise from except Exception
Fails(r) ==
    /\ http' = Response(requests[r].op, 500, 0, << >>, NoQuiz)
    /\ requests' = Without(requests, r)
    /\ heap' = IF requests[r].story = 0 THEN heap ELSE Without(heap, requests[r].story)
    /\ UNCHANGED <<story_cache, nRequests, returned>>

\* _story_cache[story.story_id] = story; return story
CacheAndReturn(r, story, new_heap) ==
    /\ heap' = new_heap
    /\ story_cache' = CachePut(story_cache, new_heap[story].story_id, story)
    /\ http' = Response(requests[r].op, 200, new_heap[story].story_id,
                        << new_heap[story] >>, NoQuiz)
    /\ returned' = returned \cup { new_heap[story].story_id }
    /\ requests' = Without(requests, r)
    /\ UNCHANGED <<nRequests>>

\* The bodies a client posts to /story/generate: input_type, whether
\* image_data is there, whether keywords are there
RequestBodies ==
    { [input_type |-> t, has_image |-> i, has_keywords |-> k] :
        t \in InputTypes, i \in BOOLEAN, k \in BOOLEAN }

\* A body that StoryRequest does not validate: generate_story never runs.
\* The status is the framework's answer to the error model_post_init raises.
GenerateRejected ==
    /\ { body \in RequestBodies :
            ~StoryRequestValid(body.input_type, body.has_image, body.has_keywords) } # {}
    /\ \E status \in {422, 500} :
          http' = Response("generate", status, 0, << >>, NoQuiz)
    /\ UNCHANGED <<heap, story_cache, requests, nRequests, returned>>
    /\ UNCHANGED exceptRouter

\* generate_story up to its first await, for the bodies StoryRequest validates
GenerateReceived ==
    /\ \E age_group \in RequestAgeGroups,
          first \in { GenerateFirstStep(body.input_type, body.has_image, body.has_keywords) :
                        body \in { b \in RequestBodies :
                                     StoryRequestValid(b.input_type, b.has_image,
                                                       b.has_keywords) } } :
          IF first = "raise400"
          THEN /\ http' = Response("generate", 500, 0, << >>, NoQuiz)
               /\ UNCHANGED <<requests, nRequests>>
          ELSE /\ nRequests < MaxRequests
               /\ requests' = With(requests, nRequests + 1,
                     Request("generate", first, age_group, TRUE, 3, 0, 0, NoAnalysis))
               /\ nRequests' = nRequests + 1
               /\ http' = NoResponse
    /\ UNCHANGED <<heap, story_cache, returned>>
    /\ UNCHANGED exceptRouter

\* generate_story_from_analysis up to its first await
FromAnalysisReceived ==
    /\ nRequests < MaxRequests
    /\ \E analysis \in Analyses, age_group \in QueryAgeGroups, include_quiz \in BOOLEAN :
          requests' = With(requests, nRequests + 1,
              Request("from_analysis", "story", age_group, include_quiz, 3, 0, 0,
                      analysis))
    /\ nRequests' = nRequests + 1
    /\ http' = NoResponse
    /\ UNCHANGED <<heap, story_cache, returned>>
    /\ UNCHANGED exceptRouter

\* analyze_image / process_keywords returns: generate_story goes on to its
\* second await
AnalysisDone ==
    /\ \E r \in DOMAIN requests, analysis \in Analyses :
          /\ requests[r].pc \in {"analyze_image", "process_keywords"}
          /\ requests' = [requests EXCEPT ![r].pc = "story", ![r].analysis = analysis]
    /\ http' = NoResponse
    /\ UNCHANGED <<heap, story_cache, nRequests, returned>>
    /\ UNCHANGED exceptRouter

\* analyze_image / process_keywords raises
AnalysisFailed ==
    /\ \E r \in DOMAIN requests :
          /\ requests[r].pc \in {"analyze_image", "process_keywords"}
          /\ Fails(r)
    /\ UNCHANGED exceptRouter

\* story_engine.generate_story returns a new StoryResponse; the handler goes
\* on to the quiz, or (from-analysis, include_quiz false) caches and returns
StoryDone ==
    /\ \E r \in DOMAIN requests, response \in StoryReplies :
          /\ requests[r].pc = "story"
          /\ LET story == GenerateStoryFromReply(NewStoryId, requests[r].analysis,
                                                 requests[r].age_group, response)
                 new_heap == With(heap, NewStoryId, story)
             IN  IF requests[r].include_quiz
                 THEN /\ heap' = new_heap
                      /\ requests' = [requests EXCEPT ![r].pc = "quiz", ![r].story = NewStoryId]
                      /\ http' = NoResponse
                      /\ UNCHANGED <<story_cache, nRequests, returned>>
                 ELSE /\ heap' = new_heap
                      /\ story_cache' = CachePut(story_cache, story.story_id, NewStoryId)
                      /\ http' = Response(requests[r].op, 200, story.story_id,
                                          << story >>, NoQuiz)
                      /\ returned' = returned \cup { story.story_id }
                      /\ requests' = Without(requests, r)
                      /\ UNCHANGED nRequests
    /\ UNCHANGED exceptRouter

\* story_engine.generate_story raises
StoryFailed ==
    /\ \E r \in DOMAIN requests :
          /\ requests[r].pc = "story"
          /\ Fails(r)
    /\ UNCHANGED exceptRouter

\* generate_quiz returns: story.quiz = quiz, the story is cached and returned
QuizDone ==
    /\ \E r \in DOMAIN requests :
          /\ requests[r].pc = "quiz"
          /\ \E quiz \in QuizzesFor(heap[requests[r].story], requests[r].num_questions) :
                CacheAndReturn(r, requests[r].story,
                               SetQuiz(heap, requests[r].story, quiz))
    /\ UNCHANGED exceptRouter

\* generate_quiz raises: nothing is cached
QuizFailed ==
    /\ \E r \in DOMAIN requests :
          /\ requests[r].pc = "quiz"
          /\ Fails(r)
    /\ UNCHANGED exceptRouter

\* regenerate_quiz up to its await, or its 404
RegenerateReceived ==
    /\ \E story_id \in StoryIds, num_questions \in {1} :
          IF CacheGet(story_id) = 0
          THEN /\ http' = Response("regenerate", 404, story_id, << >>, NoQuiz)
               /\ UNCHANGED <<requests, nRequests>>
          ELSE /\ nRequests < MaxRequests
               /\ requests' = With(requests, nRequests + 1,
                     Request("regenerate", "regenerate", "", TRUE, num_questions,
                             story_id, CacheGet(story_id), NoAnalysis))
               /\ nRequests' = nRequests + 1
               /\ http' = NoResponse
    /\ UNCHANGED <<heap, story_cache, returned>>
    /\ UNCHANGED exceptRouter

\* regenerate_quiz after its await: story.quiz = quiz;
\* _story_cache[story_id] = story; return quiz
RegenerateDone ==
    /\ \E r \in DOMAIN requests :
          /\ requests[r].pc = "regenerate"
          /\ \E quiz \in QuizzesFor(heap[requests[r].story], requests[r].num_questions) :
                /\ heap' = SetQuiz(heap, requests[r].story, quiz)
                /\ story_cache' = CachePut(story_cache, requests[r].key, requests[r].story)
                /\ http' = Response("regenerate", 200, requests[r].key, << >>, quiz)
          /\ requests' = Without(requests, r)
    /\ UNCHANGED <<nRequests, returned>>
    /\ UNCHANGED exceptRouter

\* regenerate_quiz: generate_quiz raises
RegenerateFailed ==
    /\ \E r \in DOMAIN requests :
          /\ requests[r].pc = "regenerate"
          /\ http' = Response("regenerate", 500, requests[r].key, << >>, NoQuiz)
          /\ requests' = Without(requests, r)
    /\ UNCHANGED <<heap, story_cache, nRequests, returned>>
    /\ UNCHANGED exceptRouter

\* What get_story(story_id) answers in the current state
GetStoryResponse(story_id) ==
    IF CacheGet(story_id) = 0
    THEN Response("get", 404, story_id, << >>, NoQuiz)
    ELSE Response("get", 200, story_id, << heap[CacheGet(story_id)] >>, NoQuiz)

\* get_story
GetStory ==
    /\ \E story_id \in StoryIds : http' = GetStoryResponse(story_id)
    /\ UNCHANGED <<heap, story_cache, requests, nRequests, returned>>
    /\ UNCHANGED exceptRouter

\* list_stories: list(_story_cache.values())[:limit]
ListStories ==
    /\ \E limit \in {1, 2} :
          http' = Response("list", 200, 0,
                     SliceTo([i \in 1..Len(story_cache) |-> heap[story_cache[i].ref]],
                             limit),
                     NoQuiz)
    /\ UNCHANGED <<heap, story_cache, requests, nRequests, returned>>
    /\ UNCHANGED exceptRouter

(***************************************************************************)
(* Speech service and audio router (services/speech_service.py,            *)
(* routers/audio.py)                                                       *)
(***************************************************************************)
\* max_age_seconds = max_age_hours * 3600
SecondsPerHour == 3600

\* By how much the clock advances between two steps.
TickSizes == {1, SecondsPerHour}

\* AudioRequest.text
AudioTexts == { <<"h", "i">>, <<" ">> }

AudioFile(id, ext, mtime) == [id |-> id, ext |-> ext, mtime |-> mtime]

\* A file of the directory that no audio request wrote: "1.txt"
ForeignFile == AudioFile(1, "txt", 0)

\* (self.audio_dir / f"{audio_id}.mp3").exists()
AudioFileExists(dir, audio_id) ==
    \E f \in dir : f.id = audio_id /\ f.ext = "mp3"

\* Writing audio_dir / f"{audio_id}.mp3" at time now
SaveAudioFile(dir, audio_id, now) ==
    { f \in dir : ~(f.id = audio_id /\ f.ext = "mp3") }
        \cup { AudioFile(audio_id, "mp3", now) }

\* (mutant) every audio file of the directory goes
UnlinkEveryAudio(dir, audio_id) == { f \in dir : f.ext # "mp3" }

\* output_file.unlink()
Unlink(dir, audio_id) == { f \in dir : ~(f.id = audio_id /\ f.ext = "mp3") }

\* (mutant) a partial output file is left where it is
KeepPartial(dir, audio_id) == dir

\* _generate_with_gtts, except: if output_file.exists(): output_file.unlink()
RemovePartial(dir, audio_id) ==
    IF AudioFileExists(dir, audio_id) THEN Unlink(dir, audio_id) ELSE dir

\* SpeechService.get_audio_file: the id whose path is returned, 0 for None
GetAudioFile(dir, audio_id) ==
    IF AudioFileExists(dir, audio_id) THEN audio_id ELSE 0

\* (mutant) the file stays although its deletion is reported
DeleteAudioKeepsFile(dir, audio_id) ==
    IF AudioFileExists(dir, audio_id)
    THEN [deleted |-> TRUE, dir |-> dir]
    ELSE [deleted |-> FALSE, dir |-> dir]

\* SpeechService.delete_audio: what it returns, and the directory it leaves
DeleteAudio(dir, audio_id) ==
    IF AudioFileExists(dir, audio_id)
    THEN [deleted |-> TRUE, dir |-> Unlink(dir, audio_id)]
    ELSE [deleted |-> FALSE, dir |-> dir]

\* (mutant) a file whose age equals the threshold is old as well
IsOldInclusive(file_age, max_age_seconds) == file_age >= max_age_seconds

\* if file_age > max_age_seconds
IsOld(file_age, max_age_seconds) == file_age > max_age_seconds

\* SpeechService.cleanup_old_files: what it returns, and the directory it
\* leaves
CleanupOldFiles(dir, current_time, max_age_hours) ==
    LET max_age_seconds == max_age_hours * SecondsPerHour
        unlinked == { f \in dir : /\ f.ext = "mp3"
                                  /\ IsOld(current_time - f.mtime, max_age_seconds) }
    IN  [deleted_count |-> Cardinality(unlinked), dir |-> dir \ unlinked]

\* A response of the audio router: the endpoint, the status, the audio id,
\* the max_age_hours asked for, the deleted_count answered.
AudioAnswer(op, status, audio_id, hours, deleted_count) ==
    [op |-> op, status |-> status, audio_id |-> audio_id, hours |-> hours,
     deleted_count |-> deleted_count]

NoAudioAnswer == AudioAnswer("none", 0, 0, 0, 0)

\* The audio directory exists (mkdir in __init__) and holds a file that is
\* not an mp3; no handler reads, removes or counts such a file.
AudioInit ==
    /\ audio_dir = {ForeignFile}
    /\ clock = 0
    /\ nTicks = 0
    /\ aRequests = << >>
    /\ nAudio = 0
    /\ nextAudioId = 1
    /\ aHttp = NoAudioAnswer
    /\ aDeleted = {}
    /\ aIssued = << >>

AudioIdle ==
    /\ audio_dir = {}
    /\ clock = 0
    /\ nTicks = 0
    /\ aRequests = << >>
    /\ nAudio = 0
    /\ nextAudioId = 1
    /\ aHttp = NoAudioAnswer
    /\ aDeleted = {}
    /\ aIssued = << >>

\* Time passes.
ClockAdvances ==
    /\ nTicks < MaxTicks
    /\ \E d \in TickSizes : clock' = clock + d
    /\ nTicks' = nTicks + 1
    /\ aHttp' = NoAudioAnswer
    /\ UNCHANGED <<audio_dir, aRequests, nAudio, nextAudioId, aDeleted, aIssued>>
    /\ UNCHANGED exceptAudio

\* generate_audio (router and service) up to the await of communicate.save,
\* or the router's 400 for a text of whitespace
GenerateAudioReceived ==
    /\ \E text \in AudioTexts :
          IF Len(text) = 0 \/ Len(Strip(text)) < 1
          THEN /\ aHttp' = AudioAnswer("generate", 400, 0, 0, 0)
               /\ UNCHANGED <<aRequests, nAudio, nextAudioId>>
          ELSE /\ nAudio < MaxAudioRequests
               /\ aRequests' = With(aRequests, nAudio + 1,
                                    [pc |-> "edge", audio_id |-> nextAudioId])
               /\ nAudio' = nAudio + 1
               /\ nextAudioId' = nextAudioId + 1
               /\ aHttp' = NoAudioAnswer
    /\ UNCHANGED <<audio_dir, clock, nTicks, aDeleted, aIssued>>
    /\ UNCHANGED exceptAudio

\* communicate.save has written the file: the AudioResponse is returned
EdgeSaves ==
    /\ \E r \in DOMAIN aRequests :
          /\ aRequests[r].pc = "edge"
          /\ audio_dir' = SaveAudioFile(audio_dir, aRequests[r].audio_id, clock)
          /\ aHttp' = AudioAnswer("generate", 200, aRequests[r].audio_id, 0, 0)
          /\ aIssued' = With(aIssued, aRequests[r].audio_id, "kept")
          /\ aRequests' = Without(aRequests, r)
    /\ UNCHANGED <<clock, nTicks, nAudio, nextAudioId, aDeleted>>
    /\ UNCHANGED exceptAudio

\* Edge-TTS raises, with or without a file written so far: the gTTS fallback
\* starts
EdgeFails ==
    /\ \E r \in DOMAIN aRequests, written \in BOOLEAN :
          /\ aRequests[r].pc = "edge"
          /\ audio_dir' = IF written
                          THEN SaveAudioFile(audio_dir, aRequests[r].audio_id, clock)
                          ELSE audio_dir
          /\ aRequests' = [aRequests EXCEPT ![r].pc = "gtts"]
    /\ aHttp' = NoAudioAnswer
    /\ UNCHANGED <<clock, nTicks, nAudio, nextAudioId, aDeleted, aIssued>>
    /\ UNCHANGED exceptAudio

\* gTTS has written the file: the AudioResponse is returned
GttsSaves ==
    /\ \E r \in DOMAIN aRequests :
          /\ aRequests[r].pc = "gtts"
          /\ audio_dir' = SaveAudioFile(audio_dir, aRequests[r].audio_id, clock)
          /\ aHttp' = AudioAnswer("generate", 200, aRequests[r].audio_id, 0, 0)
          /\ aIssued' = With(aIssued, aRequests[r].audio_id, "kept")
          /\ aRequests' = Without(aRequests, r)
    /\ UNCHANGED <<clock, nTicks, nAudio, nextAudioId, aDeleted>>
    /\ UNCHANGED exceptAudio

\* gTTS raises too: the file, if there is one, is unlinked; APICallError,
\* which the router answers with 500
GttsFails ==
    /\ \E r \in DOMAIN aRequests, written \in BOOLEAN :
          /\ aRequests[r].pc = "gtts"
          /\ LET dir == IF written
                        THEN SaveAudioFile(audio_dir, aRequests[r].audio_id, clock)
                        ELSE audio_dir
             IN  audio_dir' = RemovePartial(dir, aRequests[r].audio_id)
          /\ aHttp' = AudioAnswer("generate", 500, aRequests[r].audio_id, 0, 0)
          /\ aRequests' = Without(aRequests, r)
    /\ UNCHANGED <<clock, nTicks, nAudio, nextAudioId, aDeleted, aIssued>>
    /\ UNCHANGED exceptAudio

\* get_audio
GetAudio ==
    /\ \E audio_id \in 1..nextAudioId :
          aHttp' = AudioAnswer("get",
                       IF GetAudioFile(audio_dir, audio_id) = 0 THEN 404 ELSE 200,
                       audio_id, 0, 0)
    /\ UNCHANGED <<audio_dir, clock, nTicks, aRequests, nAudio, nextAudioId, aDeleted, aIssued>>
    /\ UNCHANGED exceptAudio

\* delete_audio (router)
DeleteAudioRequest ==
    /\ \E audio_id \in 1..nextAudioId :
          LET result == DeleteAudio(audio_dir, audio_id)
          IN  /\ audio_dir' = result.dir
              /\ aHttp' = AudioAnswer("delete", IF result.deleted THEN 200 ELSE 404,
                                      audio_id, 0, 0)
              /\ aDeleted' = IF result.deleted THEN aDeleted \cup {audio_id} ELSE aDeleted
              /\ aIssued' = IF result.deleted /\ audio_id \in DOMAIN aIssued
                            THEN [aIssued EXCEPT ![audio_id] = "deleted"]
                            ELSE aIssued
    /\ UNCHANGED <<clock, nTicks, aRequests, nAudio, nextAudioId>>
    /\ UNCHANGED exceptAudio

\* cleanup_old_files(max_age_hours), as cleanup_old_audio calls it (1..168)
\* or called with 0
CleanupOldAudio ==
    /\ \E max_age_hours \in 0..MaxHours :
          LET result == CleanupOldFiles(audio_dir, clock, max_age_hours)
          IN  /\ audio_dir' = result.dir
              /\ aHttp' = AudioAnswer("cleanup", 200, 0, max_age_hours,
                                      result.deleted_count)
              /\ aIssued' = [id \in DOMAIN aIssued |->
                                IF \E f \in audio_dir \ result.dir : f.id = id
                                THEN "swept" ELSE aIssued[id]]
    /\ UNCHANGED <<clock, nTicks, aRequests, nAudio, nextAudioId, aDeleted>>
    /\ UNCHANGED exceptAudio

(***************************************************************************)
(* AI processor (services/ai_processor.py)                                 *)
(***************************************************************************)
Providers == {"openai", "groq", "gemini"}

\* @with_retry(max_attempts=3) on analyze_image and on process_keywords
ProcessorMaxAttempts == 3

\* find_matching_topics(keywords, max_results=3)
ProcessorMaxResults == 3

\* topic.learning_objectives[:2]
ObjectivesTaken == 2

\* The topic of the pool with this id.
PoolTopic(id) == CHOOSE t \in TopicPool : t.id = id

\* CurriculumKnowledgeBase._initialize_defaults: the default topics, in the
\* order they are inserted (id, name, description, keywords)
DefaultTopics == <<
    [id |-> "science_photosynthesis",
     name |-> <<"P","h","o","t","o","s","y","n","t","h","e","s","i","s">>,
     description |-> <<"H","o","w"," ","p","l","a","n","t","s"," ","m","a","k","e",
         " ","f","o","o","d"," ","u","s","i","n","g"," ","s","u","n","l","i","g","h",
         "t">>,
     keywords |-> << <<"p","l","a","n","t">>, <<"s","u","n">>, <<"l","e","a","f">>,
          <<"g","r","e","e","n">>, <<"t","r","e","e">>, <<"f","l","o","w","e","r">>,
          <<"g","a","r","d","e","n">> >>],
    [id |-> "science_water_cycle",
     name |-> <<"W","a","t","e","r"," ","C","y","c","l","e">>,
     description |-> <<"T","h","e"," ","j","o","u","r","n","e","y"," ","o","f"," ",
         "w","a","t","e","r"," ","t","h","r","o","u","g","h"," ","e","v","a","p","o",
         "r","a","t","i","o","n",","," ","c","o","n","d","e","n","s","a","t","i","o",
         "n",","," ","a","n","d"," ","p","r","e","c","i","p","i","t","a","t","i","o",
         "n">>,
     keywords |-> << <<"w","a","t","e","r">>, <<"r","a","i","n">>, <<"c","l","o","u",
         "d">>, <<"r","i","v","e","r">>, <<"o","c","e","a","n">>, <<"d","r","o","p">>,
          <<"w","e","t">> >>],
    [id |-> "math_shapes",
     name |-> <<"G","e","o","m","e","t","r","i","c"," ","S","h","a","p","e","s">>,
     description |-> <<"B","a","s","i","c"," ","2","D"," ","a","n","d"," ","3","D",
         " ","s","h","a","p","e","s"," ","a","n","d"," ","t","h","e","i","r"," ","p",
         "r","o","p","e","r","t","i","e","s">>,
     keywords |-> << <<"c","i","r","c","l","e">>, <<"s","q","u","a","r","e">>, <<"t",
         "r","i","a","n","g","l","e">>, <<"r","e","c","t","a","n","g","l","e">>,
          <<"s","h","a","p","e">>, <<"r","o","u","n","d">>, <<"c","o","r","n","e",
         "r">> >>],
    [id |-> "science_animals",
     name |-> <<"A","n","i","m","a","l"," ","C","l","a","s","s","i","f","i","c","a",
         "t","i","o","n">>,
     description |-> <<"G","r","o","u","p","i","n","g"," ","a","n","i","m","a","l",
         "s"," ","b","y"," ","t","h","e","i","r"," ","c","h","a","r","a","c","t","e",
         "r","i","s","t","i","c","s">>,
     keywords |-> << <<"a","n","i","m","a","l">>, <<"m","a","m","m","a","l">>, <<"b",
         "i","r","d">>, <<"f","i","s","h">>, <<"r","e","p","t","i","l","e">>, <<"i",
         "n","s","e","c","t">>, <<"p","e","t">>, <<"w","i","l","d">> >>],
    [id |-> "science_space",
     name |-> <<"S","o","l","a","r"," ","S","y","s","t","e","m">>,
     description |-> <<"P","l","a","n","e","t","s",","," ","s","t","a","r","s",",",
         " ","a","n","d"," ","s","p","a","c","e"," ","e","x","p","l","o","r","a","t",
         "i","o","n">>,
     keywords |-> << <<"p","l","a","n","e","t">>, <<"s","t","a","r">>, <<"m","o","o",
         "n">>, <<"s","u","n">>, <<"r","o","c","k","e","t">>, <<"s","p","a","c","e">>,
          <<"e","a","r","t","h">>, <<"s","k","y">> >>],
    [id |-> "science_human_body",
     name |-> <<"H","u","m","a","n"," ","B","o","d","y">>,
     description |-> <<"B","o","d","y"," ","p","a","r","t","s"," ","a","n","d"," ",
         "t","h","e","i","r"," ","f","u","n","c","t","i","o","n","s">>,
     keywords |-> << <<"b","o","d","y">>, <<"h","e","a","r","t">>, <<"b","r","a","i",
         "n">>, <<"b","o","n","e">>, <<"m","u","s","c","l","e">>, <<"h","a","n","d">>,
          <<"e","y","e">>, <<"e","a","r">> >>],
    [id |-> "social_community",
     name |-> <<"C","o","m","m","u","n","i","t","y"," ","H","e","l","p","e","r","s">>,
     description |-> <<"P","e","o","p","l","e"," ","w","h","o"," ","h","e","l","p",
         " ","i","n"," ","o","u","r"," ","c","o","m","m","u","n","i","t","y">>,
     keywords |-> << <<"d","o","c","t","o","r">>, <<"t","e","a","c","h","e","r">>,
          <<"f","i","r","e","f","i","g","h","t","e","r">>, <<"p","o","l","i","c",
         "e">>, <<"n","u","r","s","e">>, <<"h","e","l","p","e","r">>, <<"w","o","r",
         "k">> >>],
    [id |-> "language_storytelling",
     name |-> <<"S","t","o","r","y"," ","E","l","e","m","e","n","t","s">>,
     description |-> <<"C","h","a","r","a","c","t","e","r","s",","," ","s","e","t",
         "t","i","n","g",","," ","a","n","d"," ","p","l","o","t"," ","i","n"," ","s",
         "t","o","r","i","e","s">>,
     keywords |-> << <<"s","t","o","r","y">>, <<"b","o","o","k">>, <<"c","h","a","r",
         "a","c","t","e","r">>, <<"h","e","r","o">>, <<"a","d","v","e","n","t","u",
         "r","e">>, <<"b","e","g","i","n","n","i","n","g">>, <<"e","n","d">> >>] >>

\* learning_objectives of the default topics
DefaultObjectives ==
    [id \in { DefaultTopics[i].id : i \in 1..Len(DefaultTopics) } |->
        CASE id = "science_photosynthesis" ->
              << <<"U","n","d","e","r","s","t","a","n","d"," ","h","o","w"," ","p",
                  "l","a","n","t","s"," ","p","r","o","d","u","c","e"," ","f","o","o",
                  "d">>, <<"L","e","a","r","n"," ","a","b","o","u","t"," ","t","h",
                  "e"," ","r","o","l","e"," ","o","f"," ","s","u","n","l","i","g","h",
                  "t"," ","i","n"," ","p","l","a","n","t"," ","g","r","o","w","t",
                  "h">>, <<"I","d","e","n","t","i","f","y"," ","p","a","r","t","s",
                  " ","o","f"," ","a"," ","p","l","a","n","t">> >>
          [] id = "science_water_cycle" ->
              << <<"U","n","d","e","r","s","t","a","n","d"," ","e","v","a","p","o",
                  "r","a","t","i","o","n"," ","a","n","d"," ","c","o","n","d","e","n",
                  "s","a","t","i","o","n">>, <<"L","e","a","r","n"," ","a","b","o",
                  "u","t"," ","p","r","e","c","i","p","i","t","a","t","i","o","n">>,
                   <<"T","r","a","c","e"," ","w","a","t","e","r","'","s"," ","j","o",
                  "u","r","n","e","y">> >>
          [] id = "math_shapes" ->
              << <<"I","d","e","n","t","i","f","y"," ","b","a","s","i","c"," ","s",
                  "h","a","p","e","s">>, <<"C","o","u","n","t"," ","s","i","d","e",
                  "s"," ","a","n","d"," ","c","o","r","n","e","r","s">>, <<"R","e",
                  "c","o","g","n","i","z","e"," ","s","h","a","p","e","s"," ","i","n",
                  " ","e","v","e","r","y","d","a","y"," ","o","b","j","e","c","t",
                  "s">> >>
          [] id = "science_animals" ->
              << <<"C","l","a","s","s","i","f","y"," ","a","n","i","m","a","l","s",
                  " ","i","n","t","o"," ","g","r","o","u","p","s">>, <<"I","d","e",
                  "n","t","i","f","y"," ","a","n","i","m","a","l"," ","c","h","a","r",
                  "a","c","t","e","r","i","s","t","i","c","s">>, <<"U","n","d","e",
                  "r","s","t","a","n","d"," ","h","a","b","i","t","a","t","s">> >>
          [] id = "science_space" ->
              << <<"N","a","m","e"," ","t","h","e"," ","p","l","a","n","e","t","s",
                  " ","i","n"," ","o","r","d","e","r">>, <<"U","n","d","e","r","s",
                  "t","a","n","d"," ","d","a","y"," ","a","n","d"," ","n","i","g","h",
                  "t">>, <<"L","e","a","r","n"," ","a","b","o","u","t"," ","t","h",
                  "e"," ","m","o","o","n"," ","p","h","a","s","e","s">> >>
          [] id = "science_human_body" ->
              << <<"I","d","e","n","t","i","f","y"," ","m","a","j","o","r"," ","b",
                  "o","d","y"," ","p","a","r","t","s">>, <<"U","n","d","e","r","s",
                  "t","a","n","d"," ","o","r","g","a","n"," ","f","u","n","c","t","i",
                  "o","n","s">>, <<"L","e","a","r","n"," ","a","b","o","u","t"," ",
                  "s","t","a","y","i","n","g"," ","h","e","a","l","t","h","y">> >>
          [] id = "social_community" ->
              << <<"I","d","e","n","t","i","f","y"," ","c","o","m","m","u","n","i",
                  "t","y"," ","h","e","l","p","e","r","s">>, <<"U","n","d","e","r",
                  "s","t","a","n","d"," ","d","i","f","f","e","r","e","n","t"," ","j",
                  "o","b","s">>, <<"A","p","p","r","e","c","i","a","t","e"," ","c",
                  "o","m","m","u","n","i","t","y"," ","s","e","r","v","i","c","e">> >>
          [] OTHER ->
              << <<"I","d","e","n","t","i","f","y"," ","s","t","o","r","y"," ","c",
                  "h","a","r","a","c","t","e","r","s">>, <<"D","e","s","c","r","i",
                  "b","e"," ","s","e","t","t","i","n","g","s">>, <<"U","n","d","e",
                  "r","s","t","a","n","d"," ","p","l","o","t"," ","s","t","r","u","c",
                  "t","u","r","e">> >> ]

\* The knowledge bases a processor holds.
KnowledgeBases ==
    { << PoolTopic("t1"), PoolTopic("t2"), PoolTopic("t4") >>,
      << PoolTopic("t4") >>,
      DefaultTopics }

\* topic.learning_objectives
LearningObjectives(topic) ==
    CASE topic.id \in DOMAIN DefaultObjectives -> DefaultObjectives[topic.id]
      [] topic.id = "t1" -> << <<"o","1">>, <<"o","2">>, <<"o","3">> >>
      [] topic.id = "t2" -> << <<"o","1">> >>
      [] topic.id = "t3" -> << >>
      [] OTHER -> << <<"o","4">>, <<"o","5">> >>

\* The keywords strings a caller passes: "a,b", " z , d", "d", "D  d", ""
KeywordStrings ==
    { <<"a", ",", "b">>, <<" ", "z", " ", ",", " ", "d">>, <<"d">>,
      <<"D", " ", " ", "d">>, << >> }

\* str.replace(old, new) for one-character old and new
ReplaceChar(s, old, new) == [i \in 1..Len(s) |-> IF s[i] = old THEN new ELSE s[i]]

\* keyword_list = [kw.strip() for kw in keywords.replace(",", " ").split()]
KeywordList(keywords) ==
    LET words == SplitWords(ReplaceChar(keywords, ",", " "))
    IN  [i \in 1..Len(words) |-> Strip(words[i])]

\* The concatenation of the sequences of a sequence.
RECURSIVE Flatten(_)
Flatten(seqs) == IF seqs = << >> THEN << >> ELSE Head(seqs) \o Flatten(Tail(seqs))

\* ImageAnalysisResult; confidence in tenths (9 is 0.9)
AnalysisResult(detected_objects, scene_description, educational_concepts, suggested_topics, confidence) ==
    [detected_objects |-> detected_objects,
     scene_description |-> scene_description,
     educational_concepts |-> educational_concepts,
     suggested_topics |-> suggested_topics,
     confidence |-> confidence]

KeywordsPrefix == <<"K","e","y","w","o","r","d","s",":"," ">>
TopicPrefix == <<"T","o","p","i","c",":"," ">>
GeneralLearning == <<"G","e","n","e","r","a","l"," ","L","e","a","r","n","i","n","g">>

\* confidence=0.9, in tenths
MatchedConfidence == 9

\* confidence=0.5, in tenths
FallbackConfidence == 5

\* float(data.get("confidence", 0.8)), in tenths
DefaultConfidence == 8

\* A result built from every learning objective of the topics.
MatchedResultAllObjectives(matching_topics, keywords) ==
    AnalysisResult(
        << >>,
        KeywordsPrefix \o keywords,
        Flatten([i \in 1..Len(matching_topics) |-> LearningObjectives(matching_topics[i])]),
        [i \in 1..Len(matching_topics) |-> matching_topics[i].name],
        MatchedConfidence)

\* process_keywords, "if matching_topics:": the result built from the topics
MatchedResult(matching_topics, keywords) ==
    AnalysisResult(
        << >>,
        KeywordsPrefix \o keywords,
        Flatten([i \in 1..Len(matching_topics) |->
                    SliceTo(LearningObjectives(matching_topics[i]), ObjectivesTaken)]),
        [i \in 1..Len(matching_topics) |-> matching_topics[i].name],
        MatchedConfidence)

\* _interpret_keywords_with_ai, except Exception: the fallback response
KeywordsFallback(keywords) ==
    AnalysisResult(<< >>, TopicPrefix \o keywords, << keywords >>,
                   << GeneralLearning >>, FallbackConfidence)

\* What the vendor's reply holds between its code fences: the text, what kind
\* of JSON it is, and for an object the values under the five keys (has_keys
\* FALSE: the object has none of them), whether float() accepts the
\* confidence, and the confidence in tenths.
AnalysisBody(kind, text, has_keys, objects, scene, concepts, suggested, confidence_ok, confidence) ==
    [kind |-> kind, text |-> text, has_keys |-> has_keys,
     detected_objects |-> objects, scene_description |-> scene,
     educational_concepts |-> concepts, suggested_topics |-> suggested,
     confidence_ok |-> confidence_ok, confidence |-> confidence]

JsonText == <<"{", "}">>

FullBody ==
    AnalysisBody("object", JsonText, TRUE, << <<"z">> >>, <<"s">>, << <<"7">> >>,
                 << <<"z">> >>, TRUE, 7)

AnalysisBodies == {
    AnalysisBody("text", <<"n", "o">>, FALSE, << >>, << >>, << >>, << >>, TRUE, 0),
    AnalysisBody("text", << >>, FALSE, << >>, << >>, << >>, << >>, TRUE, 0),
    AnalysisBody("array", <<"[", "]">>, FALSE, << >>, << >>, << >>, << >>, TRUE, 0),
    FullBody,
    AnalysisBody("object", JsonText, FALSE, << >>, << >>, << >>, << >>, TRUE, 0),
    AnalysisBody("object", JsonText, TRUE, << >>, <<"s">>, << >>, << >>, FALSE, 0),
    AnalysisBody("object", JsonText, TRUE, << >>, <<"s">>, << >>, << >>, TRUE, 15) }

AnalysisReplies ==
    { [kind |-> "reply", fence |-> f, body |-> b] : f \in Fences, b \in AnalysisBodies }

\* What the error message of a failing vendor call contains.
ErrorMessages == {"rate_limit", "quota", "other"}

\* What ends a vendor call: an exception with a message, or a reply.
AnalysisOutcomes ==
    { [kind |-> "raises", message |-> m] : m \in ErrorMessages } \cup AnalysisReplies

\* The character U+0060 (a string of the module cannot hold it).
Backtick == "U+0060"

JsonFence == <<Backtick, Backtick, Backtick, "j", "s", "o", "n">>
BareFence == <<Backtick, Backtick, Backtick>>

\* The reply as the vendor sends it.
RawText(reply) ==
    CASE reply.fence = "json" -> JsonFence \o <<"\n">> \o reply.body.text \o <<"\n">> \o BareFence
      [] reply.fence = "bare" -> BareFence \o <<"\n">> \o reply.body.text \o <<"\n">> \o BareFence
      [] OTHER -> <<" ">> \o reply.body.text \o <<"\n">>

\* str.endswith
EndsWith(s, suffix) ==
    /\ Len(s) >= Len(suffix)
    /\ SubSeq(s, Len(s) - Len(suffix) + 1, Len(s)) = suffix

\* result_text.strip(); [7:] after a leading JsonFence; [:-3] before a
\* trailing BareFence
CleanUp(text) ==
    LET stripped == Strip(text)
        opened == IF StartsWith(stripped, JsonFence)
                  THEN SubSeq(stripped, 8, Len(stripped))
                  ELSE stripped
    IN  IF EndsWith(opened, BareFence)
        THEN SubSeq(opened, 1, Len(opened) - 3)
        ELSE opened

\* result_text[:200]
SceneLimit == 200

Drawing == <<"d","r","a","w","i","n","g">>
ImageAnalyzed == <<"I","m","a","g","e"," ","a","n","a","l","y","z","e","d">>
GeneralLearningLower == <<"g","e","n","e","r","a","l"," ","l","e","a","r","n","i","n","g">>
CreativeExpression ==
    <<"c","r","e","a","t","i","v","e"," ","e","x","p","r","e","s","s","i","o","n">>

\* _parse_analysis_result, except json.JSONDecodeError: the basic result
BasicResult(result_text) ==
    AnalysisResult(<< Drawing >>,
                   IF result_text # << >> THEN SliceTo(result_text, SceneLimit)
                                         ELSE ImageAnalyzed,
                   << GeneralLearningLower >>, << CreativeExpression >>,
                   FallbackConfidence)

\* AIProcessor._parse_analysis_result: the result, or the exception it lets
\* through
ParseAnalysisResult(reply) ==
    LET result_text == CleanUp(RawText(reply))
        data == reply.body
    IN  IF ~JsonLoads(reply) THEN [ok |-> TRUE, result |-> BasicResult(result_text)]
        ELSE IF data.kind # "object" THEN [ok |-> FALSE, error |-> "AttributeError"]
        ELSE IF ~data.has_keys
             THEN [ok |-> TRUE,
                   result |-> AnalysisResult(<< >>, << >>, << >>, << >>, DefaultConfidence)]
        ELSE IF ~data.confidence_ok THEN [ok |-> FALSE, error |-> "ValueError"]
        ELSE IF data.confidence < 0 \/ data.confidence > 10
             THEN [ok |-> FALSE, error |-> "ValidationError"]
        ELSE [ok |-> TRUE,
              result |-> AnalysisResult(data.detected_objects, data.scene_description,
                                        data.educational_concepts, data.suggested_topics,
                                        data.confidence)]

\* _interpret_keywords_with_ai once the vendor call has ended: it returns
\* what it parsed, or the fallback when anything raised
InterpretKeywords(keywords, outcome) ==
    IF outcome.kind = "raises" THEN KeywordsFallback(keywords)
    ELSE IF ParseAnalysisResult(outcome).ok THEN ParseAnalysisResult(outcome).result
    ELSE KeywordsFallback(keywords)

\* The elements of a list.
Elements(list) == { list[i] : i \in 1..Len(list) }

\* list(set(items)): the distinct elements in an order the build chooses
ListOfSet(items) ==
    LET S == Elements(items)
    IN  { f \in [1..Cardinality(S) -> S] :
            \A i, j \in 1..Cardinality(S) : i # j => f[i] # f[j] }

\* (mutant) the matched topics' names and objectives take the place of what
\* the result held
EnrichWithCurriculumReplacing(kb, result) ==
    LET keywords == result.detected_objects \o result.educational_concepts
                        \o result.suggested_topics
        matching_topics == FindMatchingTopics(kb, keywords, ProcessorMaxResults)
        curriculum_topics == [i \in 1..Len(matching_topics) |-> matching_topics[i].name]
        objectives == Flatten([i \in 1..Len(matching_topics) |->
                        SliceTo(LearningObjectives(matching_topics[i]), ObjectivesTaken)])
    IN  IF matching_topics = << >> THEN { result }
        ELSE { [result EXCEPT !.suggested_topics = suggested,
                              !.educational_concepts = concepts] :
                 suggested \in ListOfSet(curriculum_topics),
                 concepts \in ListOfSet(objectives) }

\* AIProcessor._enrich_with_curriculum: the results it may return
EnrichWithCurriculum(kb, result) ==
    LET keywords == result.detected_objects \o result.educational_concepts
                        \o result.suggested_topics
        matching_topics == FindMatchingTopics(kb, keywords, ProcessorMaxResults)
        curriculum_topics == [i \in 1..Len(matching_topics) |-> matching_topics[i].name]
        extended == result.educational_concepts \o
                    Flatten([i \in 1..Len(matching_topics) |->
                        SliceTo(LearningObjectives(matching_topics[i]), ObjectivesTaken)])
    IN  IF matching_topics = << >> THEN { result }
        ELSE { [result EXCEPT !.suggested_topics = suggested,
                              !.educational_concepts = concepts] :
                 suggested \in ListOfSet(result.suggested_topics \o curriculum_topics),
                 concepts \in ListOfSet(extended) }

\* The word a provider's helper looks for in the message of an exception.
ThrottleWord(provider) == IF provider = "gemini" THEN "quota" ELSE "rate_limit"

\* _analyze_with_openai / _analyze_with_gemini / _analyze_with_groq: the
\* parsed result, or the exception the helper raises (RateLimitError when the
\* message holds the provider's word, the exception itself otherwise)
AnalyzeWithProvider(provider, outcome) ==
    IF outcome.kind = "raises"
    THEN [ok |-> FALSE,
          error |-> IF outcome.message = ThrottleWord(provider)
                    THEN "RateLimitError" ELSE "Exception"]
    ELSE ParseAnalysisResult(outcome)

\* The body of analyze_image once the vendor call has ended: the results it
\* may return, or the APICallError its except clause raises in place of
\* whatever was raised
AnalyzeImageAttempts(provider, kb, outcome) ==
    LET helper == AnalyzeWithProvider(provider, outcome)
    IN  IF helper.ok
        THEN { [ok |-> TRUE, result |-> r] : r \in EnrichWithCurriculum(kb, helper.result) }
        ELSE { [ok |-> FALSE, error |-> "APICallError", cause |-> helper.error] }

ProcessorInit ==
    /\ pOp \in {"keywords", "image"}
    /\ pProvider \in Providers
    /\ pKb \in KnowledgeBases
    /\ pKeywords \in IF pOp = "keywords" THEN KeywordStrings ELSE { << >> }
    /\ pCalls = 0
    /\ pFailed = 0
    /\ pSlept = << >>
    /\ pPc = "call"
    /\ pReply = [kind |-> "none"]
    /\ pOutcome = [kind |-> "none"]

ProcessorIdle ==
    /\ pOp = "keywords"
    /\ pProvider = "openai"
    /\ pKb = << >>
    /\ pKeywords = << >>
    /\ pCalls = 0
    /\ pFailed = 0
    /\ pSlept = << >>
    /\ pPc = "done"
    /\ pReply = [kind |-> "none"]
    /\ pOutcome = [kind |-> "none"]

\* The topics process_keywords finds for its keywords.
MatchingTopics == FindMatchingTopics(pKb, KeywordList(pKeywords), ProcessorMaxResults)

\* process_keywords finds topics and returns the result built from them
KeywordsMatched ==
    /\ pOp = "keywords"
    /\ pPc = "call"
    /\ MatchingTopics # << >>
    /\ pOutcome' = [kind |-> "returned", result |-> MatchedResult(MatchingTopics, pKeywords)]
    /\ pPc' = "done"
    /\ UNCHANGED <<pOp, pProvider, pKb, pKeywords, pCalls, pFailed, pSlept, pReply>>
    /\ UNCHANGED exceptProcessor

\* process_keywords finds no topic: _interpret_keywords_with_ai awaits the vendor
KeywordsCallsVendor ==
    /\ pOp = "keywords"
    /\ pPc = "call"
    /\ MatchingTopics = << >>
    /\ pCalls' = pCalls + 1
    /\ pPc' = "vendor"
    /\ UNCHANGED <<pOp, pProvider, pKb, pKeywords, pFailed, pSlept, pReply, pOutcome>>
    /\ UNCHANGED exceptProcessor

\* the vendor call ends: _interpret_keywords_with_ai returns
KeywordsVendorEnds ==
    /\ pOp = "keywords"
    /\ pPc = "vendor"
    /\ \E outcome \in AnalysisOutcomes :
          /\ pReply' = outcome
          /\ pOutcome' = [kind |-> "returned",
                          result |-> InterpretKeywords(pKeywords, outcome)]
    /\ pPc' = "done"
    /\ UNCHANGED <<pOp, pProvider, pKb, pKeywords, pCalls, pFailed, pSlept>>
    /\ UNCHANGED exceptProcessor

\* analyze_image's body starts: build the prompt, await the vendor
ImageCallsVendor ==
    /\ pOp = "image"
    /\ pPc = "call"
    /\ pCalls' = pCalls + 1
    /\ pReply' = [kind |-> "none"]
    /\ pPc' = "vendor"
    /\ UNCHANGED <<pOp, pProvider, pKb, pKeywords, pFailed, pSlept, pOutcome>>
    /\ UNCHANGED exceptProcessor

\* the vendor call ends and the body returns the enriched result
ImageReturns ==
    /\ pOp = "image"
    /\ pPc = "vendor"
    /\ \E outcome \in AnalysisOutcomes :
          \E res \in AnalyzeImageAttempts(pProvider, pKb, outcome) :
              /\ res.ok
              /\ pReply' = outcome
              /\ pOutcome' = [kind |-> "returned", result |-> res.result]
    /\ pPc' = "done"
    /\ UNCHANGED <<pOp, pProvider, pKb, pKeywords, pCalls, pFailed, pSlept>>
    /\ UNCHANGED exceptProcessor

\* the vendor call ends, the body raises APICallError, the wrapper sleeps
ImageFailsSleeps ==
    /\ pOp = "image"
    /\ pPc = "vendor"
    /\ \E outcome \in AnalysisOutcomes :
          \E res \in AnalyzeImageAttempts(pProvider, pKb, outcome) :
              /\ ~res.ok
              /\ AfterFailure(res.error, pCalls, ProcessorMaxAttempts, {"Exception"}) = "sleep"
              /\ pReply' = outcome
    /\ pFailed' = pFailed + 1
    /\ pSlept' = Append(pSlept, WaitExponential(pCalls))
    /\ pPc' = "sleep"
    /\ UNCHANGED <<pOp, pProvider, pKb, pKeywords, pCalls, pOutcome>>
    /\ UNCHANGED exceptProcessor

\* the vendor call ends, the body raises APICallError at the last attempt
ImageFailsLastAttempt ==
    /\ pOp = "image"
    /\ pPc = "vendor"
    /\ \E outcome \in AnalysisOutcomes :
          \E res \in AnalyzeImageAttempts(pProvider, pKb, outcome) :
              /\ ~res.ok
              /\ AfterFailure(res.error, pCalls, ProcessorMaxAttempts, {"Exception"}) # "sleep"
              /\ pReply' = outcome
              /\ pOutcome' = [kind |-> "raised",
                              exception |-> WrapperRaises(TenacityStopRaises(
                                  [kind |-> res.error, call |-> pCalls])).kind,
                              cause |-> res.cause]
    /\ pFailed' = pFailed + 1
    /\ pPc' = "done"
    /\ UNCHANGED <<pOp, pProvider, pKb, pKeywords, pCalls, pSlept>>
    /\ UNCHANGED exceptProcessor

\* the sleep ends: the body is invoked again
ImageWakes ==
    /\ pOp = "image"
    /\ pPc = "sleep"
    /\ pPc' = "call"
    /\ UNCHANGED <<pOp, pProvider, pKb, pKeywords, pCalls, pFailed, pSlept, pReply, pOutcome>>
    /\ UNCHANGED exceptProcessor

(***************************************************************************)
(* Input check of the handlers (models/schemas.py StoryRequest,            *)
(* routers/input_handler.py analyze_input, routers/story.py generate_story)*)
(***************************************************************************)
\* An Optional[str]: None, or a string.
None == [present |-> FALSE, value |-> << >>]
Some(value) == [present |-> TRUE, value |-> value]

\* not v
Falsy(v) == ~v.present \/ v.value = << >>

DataPrefix == <<"d","a","t","a",":">>

\* The characters of the pool that base64.b64decode(v, validate=True) takes.
Base64Alphabet == {"Q", "U", "d", "a", "t", "x", "="}

\* base64.b64decode(v, validate=True) does not raise
IsBase64(s) ==
    /\ \A i \in 1..Len(s) : s[i] \in Base64Alphabet
    /\ Len(s) % 4 = 0

\* v.split(",", 1)[1]
AfterFirstComma(s) ==
    LET i == CHOOSE k \in 1..Len(s) : s[k] = "," /\ \A j \in 1..(k - 1) : s[j] # ","
    IN  SubSeq(s, i + 1, Len(s))

\* StoryRequest.validate_image_data: the value kept, or the ValueError
ValidateImageData(v) ==
    IF ~v.present THEN [ok |-> TRUE, value |-> v]
    ELSE LET data == IF StartsWith(v.value, DataPrefix) /\ Contains(v.value, <<",">>)
                     THEN AfterFirstComma(v.value)
                     ELSE v.value
         IN  IF IsBase64(data) THEN [ok |-> TRUE, value |-> Some(data)]
                               ELSE [ok |-> FALSE, value |-> v]

\* re.sub(r'[<>{}[\]\\]', '', v)
DangerousCharacters == {"<", ">", "{", "}", "[", "]", "\\"}

\* StoryRequest.validate_keywords
ValidateKeywords(v) ==
    IF ~v.present THEN v
    ELSE Some(Strip(SelectSeq(v.value, LAMBDA c : c \notin DangerousCharacters)))

\* The image_data and keywords a client may send.
ImageDataPool ==
    { None, Some(<< >>), Some(<<"Q","Q","=","=">>), Some(<<"!">>),
      Some(DataPrefix), Some(DataPrefix \o <<"x", ",">>),
      Some(DataPrefix \o <<"x", ",", "Q","U","=","=">>) }

KeywordsPool ==
    { None, Some(<< >>), Some(<<" ">>), Some(<<"<", ">">>),
      Some(<<"c","a","t">>), Some(<<" ","a","<","b"," ">>) }

\* What the framework answers when StoryRequest's model_post_init raises its
\* ValueError: 422 where pydantic turns it into a validation error, 500 where
\* it escapes as it is.
PostInitStatuses == {422, 500}

InputInit ==
    /\ iVia \in {"http", "direct"}
    /\ iEndpoint \in {"analyze", "generate"}
    /\ iInputType \in InputTypes
    /\ iImageData \in ImageDataPool
    /\ iKeywords \in KeywordsPool
    /\ iPc = IF iVia = "http" THEN "received" ELSE "handler"
    /\ iStatus = 0

InputIdle ==
    /\ iVia = "http"
    /\ iEndpoint = "analyze"
    /\ iInputType = "keyword"
    /\ iImageData = None
    /\ iKeywords = None
    /\ iPc = "done"
    /\ iStatus = 0

\* the framework builds the StoryRequest and calls the handler
InputValidated ==
    /\ iPc = "received"
    /\ ValidateImageData(iImageData).ok
    /\ StoryRequestValid(iInputType, ~Falsy(ValidateImageData(iImageData).value),
                         ~Falsy(ValidateKeywords(iKeywords)))
    /\ iImageData' = ValidateImageData(iImageData).value
    /\ iKeywords' = ValidateKeywords(iKeywords)
    /\ iPc' = "handler"
    /\ UNCHANGED <<iVia, iEndpoint, iInputType, iStatus>>
    /\ UNCHANGED exceptInput

\* a field validator or model_post_init raises: the framework answers, the
\* handler never runs
InputRejected ==
    /\ iPc = "received"
    /\ IF ~ValidateImageData(iImageData).ok
       THEN /\ iStatus' = 422
            /\ UNCHANGED <<iImageData, iKeywords>>
       ELSE /\ ~StoryRequestValid(iInputType,
                                  ~Falsy(ValidateImageData(iImageData).value),
                                  ~Falsy(ValidateKeywords(iKeywords)))
            /\ iStatus' \in PostInitStatuses
            /\ iImageData' = ValidateImageData(iImageData).value
            /\ iKeywords' = ValidateKeywords(iKeywords)
    /\ iPc' = "done"
    /\ UNCHANGED <<iVia, iEndpoint, iInputType>>
    /\ UNCHANGED exceptInput

\* What the handler's except clauses make of an exception raised in its try.
HandlerStatusFor(exception) == IF exception = "ValidationError" THEN 400 ELSE 500

\* the handler finds the field missing: its HTTPException(400) is raised
\* inside the try block and caught there
HandlerRaisesInsideTry ==
    /\ iPc = "handler"
    /\ GenerateFirstStep(iInputType, ~Falsy(iImageData), ~Falsy(iKeywords)) = "raise400"
    /\ iStatus' = HandlerStatusFor("HTTPException")
    /\ iPc' = "done"
    /\ UNCHANGED <<iVia, iEndpoint, iInputType, iImageData, iKeywords>>
    /\ UNCHANGED exceptInput

\* the handler awaits analyze_image or process_keywords
HandlerCallsProcessor ==
    /\ iPc = "handler"
    /\ GenerateFirstStep(iInputType, ~Falsy(iImageData), ~Falsy(iKeywords)) # "raise400"
    /\ iPc' = GenerateFirstStep(iInputType, ~Falsy(iImageData), ~Falsy(iKeywords))
    /\ UNCHANGED <<iVia, iEndpoint, iInputType, iImageData, iKeywords, iStatus>>
    /\ UNCHANGED exceptInput

\* the processor returns: analyze_input answers with the result,
\* generate_story goes on to the story engine
HandlerGetsAnalysis ==
    /\ iPc \in {"analyze_image", "process_keywords"}
    /\ IF iEndpoint = "analyze"
       THEN iStatus' = 200 /\ iPc' = "done"
       ELSE iStatus' = 0 /\ iPc' = "continues"
    /\ UNCHANGED <<iVia, iEndpoint, iInputType, iImageData, iKeywords>>
    /\ UNCHANGED exceptInput

\* analyze_image raises APICallError (process_keywords raises nothing)
HandlerGetsError ==
    /\ iPc = "analyze_image"
    /\ iStatus' = HandlerStatusFor("APICallError")
    /\ iPc' = "done"
    /\ UNCHANGED <<iVia, iEndpoint, iInputType, iImageData, iKeywords>>
    /\ UNCHANGED exceptInput

(***************************************************************************)
(* Voice selection (services/speech_service.py, generate_audio)            *)
(***************************************************************************)
\* SpeechService.VOICE_MAP
VOICE_MAP ==
    [language \in {"en", "en-US", "en-GB", "es", "fr", "de", "it", "pt", "zh", "ja",
                   "ko", "hi", "ar", "ru"} |->
        CASE language = "en" -> "en-US-AriaNeural"
          [] language = "en-US" -> "en-US-AriaNeural"
          [] language = "en-GB" -> "en-GB-SoniaNeural"
          [] language = "es" -> "es-ES-ElviraNeural"
          [] language = "fr" -> "fr-FR-DeniseNeural"
          [] language = "de" -> "de-DE-KatjaNeural"
          [] language = "it" -> "it-IT-ElsaNeural"
          [] language = "pt" -> "pt-BR-FranciscaNeural"
          [] language = "zh" -> "zh-CN-XiaoxiaoNeural"
          [] language = "ja" -> "ja-JP-NanamiNeural"
          [] language = "ko" -> "ko-KR-SunHiNeural"
          [] language = "hi" -> "hi-IN-SwaraNeural"
          [] language = "ar" -> "ar-SA-ZariyahNeural"
          [] OTHER -> "ru-RU-SvetlanaNeural"]

\* SpeechService.CHILD_VOICES
CHILD_VOICES ==
    [language \in {"en", "es", "fr", "de"} |->
        CASE language = "en" -> "en-US-AnaNeural"
          [] language = "es" -> "es-MX-DaliaNeural"
          [] language = "fr" -> "fr-FR-EloiseNeural"
          [] OTHER -> "de-DE-GiselaNeural"]

\* voice: Optional[str]
NoVoice == [present |-> FALSE, name |-> ""]
Voice(name) == [present |-> TRUE, name |-> name]

\* (mutant) the child-friendly voice is taken whatever the preference
SelectVoiceIgnoringPreference(voice, language, use_child_voice, default_voice) ==
    IF voice.present /\ voice.name # "" THEN voice.name
    ELSE IF language \in DOMAIN CHILD_VOICES THEN CHILD_VOICES[language]
    ELSE IF language \in DOMAIN VOICE_MAP THEN VOICE_MAP[language]
    ELSE default_voice

\* generate_audio, "Determine voice to use"
SelectVoice(voice, language, use_child_voice, default_voice) ==
    IF voice.present /\ voice.name # "" THEN voice.name
    ELSE IF use_child_voice /\ language \in DOMAIN CHILD_VOICES THEN CHILD_VOICES[language]
    ELSE IF language \in DOMAIN VOICE_MAP THEN VOICE_MAP[language]
    ELSE default_voice

\* generate_audio_stream:
\* selected_voice = voice or self.VOICE_MAP.get(language, self.default_voice)
SelectStreamVoice(voice, language, default_voice) ==
    IF voice.present /\ voice.name # "" THEN voice.name
    ELSE IF language \in DOMAIN VOICE_MAP THEN VOICE_MAP[language]
    ELSE default_voice

\* The arguments a caller may pass, and the configured default voices.
VoicePool == { NoVoice, Voice(""), Voice("en-GB-RyanNeural") }
LanguagePool == {"en", "en-US", "es", "de", "hi", "ru", "EN", "sw"}
DefaultVoicePool == {"en-US-AriaNeural", "en-GB-LibbyNeural"}

VoiceInit ==
    /\ vVoice \in VoicePool
    /\ vLanguage \in LanguagePool
    /\ vUseChildVoice \in BOOLEAN
    /\ vDefaultVoice \in DefaultVoicePool
    /\ vPc = "call"
    /\ vSelected = ""
    /\ vStreamPc = "call"
    /\ vStreamSelected = ""

VoiceIdle ==
    /\ vVoice = NoVoice
    /\ vLanguage = "en"
    /\ vUseChildVoice = TRUE
    /\ vDefaultVoice = "en-US-AriaNeural"
    /\ vPc = "done"
    /\ vSelected = ""
    /\ vStreamPc = "done"
    /\ vStreamSelected = ""

\* generate_audio determines the voice
VoiceSelected ==
    /\ vPc = "call"
    /\ vSelected' = SelectVoice(vVoice, vLanguage, vUseChildVoice, vDefaultVoice)
    /\ vPc' = "done"
    /\ UNCHANGED <<vVoice, vLanguage, vUseChildVoice, vDefaultVoice, vStreamPc,
                   vStreamSelected>>
    /\ UNCHANGED exceptVoice

\* generate_audio_stream determines the voice
StreamVoiceSelected ==
    /\ vStreamPc = "call"
    /\ vStreamSelected' = SelectStreamVoice(vVoice, vLanguage, vDefaultVoice)
    /\ vStreamPc' = "done"
    /\ UNCHANGED <<vVoice, vLanguage, vUseChildVoice, vDefaultVoice, vPc, vSelected>>
    /\ UNCHANGED exceptVoice

(***************************************************************************)
(* Story parser (services/story_engine.py, _parse_story_response)          *)
(***************************************************************************)
MaxReplyLines == 3
MaxStoryLines == 2

\* A line of SummaryWords + 1 words.
LongLine == [i \in 1..(2 * SummaryWords + 1) |-> IF i % 2 = 1 THEN "w" ELSE " "]

\* Lines of a vendor reply: "TITLE: T", "# h", "STORY:", "Summary:", "a  b",
\* " c " and the long line.
ReplyLinePool ==
    { TitleMarker \o <<" ","T">>,
      <<"#"," ","h">>,
      StoryMarker,
      <<"S","u","m","m","a","r","y",":">>,
      <<"a"," "," ","b">>,
      <<" ","c"," ">>,
      LongLine }

\* In a reply of the requested format: the text after "TITLE: ", the story
\* lines, the summary lines.
TitleTexts ==
    { <<"T">>,
      <<"m","y"," ","s","t","o","r","y",":"," ","x">>,
      <<"a"," ","s","u","m","m","a","r","y",":"," ","y">> }

StoryLinePool ==
    { <<"a"," ","b">>,
      <<"t","h","e"," ","s","t","o","r","y",":"," ","c">>,
      <<"i","n"," ","s","u","m","m","a","r","y",":"," ","d">>,
      <<" ","e">> }

SummaryLineLists == { << <<"s"," ","t">> >>, << <<"s"," ","t">>, <<"u">> >> }

\* The reply the prompt of _build_story_prompt asks for: a TITLE: line, a
\* STORY: line, the story lines, a SUMMARY: line, the summary lines.
FormattedReply(title, story_lines, summary_lines) ==
    Join(<< TitleMarker \o <<" ">> \o title, StoryMarker >> \o story_lines
            \o << SummaryMarker >> \o summary_lines,
         <<"\n">>)

Format(formatted, title, story_lines, summary_lines) ==
    [formatted |-> formatted, title |-> title, story_lines |-> story_lines,
     summary_lines |-> summary_lines]

NoFormat == Format(FALSE, << >>, << >>, << >>)

NothingParsed == [title |-> << >>, content |-> << >>, summary |-> << >>]

ParserInit ==
    /\ \/ /\ sFormat = NoFormat
          /\ \E lines \in SeqsUpTo(ReplyLinePool, MaxReplyLines) :
                sResponse = Join(lines, <<"\n">>)
       \/ \E title \in TitleTexts, summary_lines \in SummaryLineLists :
             \E story_lines \in SeqsUpTo(StoryLinePool, MaxStoryLines) \ { << >> } :
                /\ sFormat = Format(TRUE, title, story_lines, summary_lines)
                /\ sResponse = FormattedReply(title, story_lines, summary_lines)
    /\ sParsed = NothingParsed
    /\ sPc = "call"

ParserIdle ==
    /\ sResponse = << >>
    /\ sFormat = NoFormat
    /\ sParsed = NothingParsed
    /\ sPc = "done"

\* the call self._parse_story_response(response)
CallParseStoryResponse ==
    /\ sPc = "call"
    /\ sParsed' = ParseStoryResponse(sResponse)
    /\ sPc' = "done"
    /\ UNCHANGED <<sResponse, sFormat>>
    /\ UNCHANGED exceptParser

(***************************************************************************)
(* One /generate request and its vendor calls (routers/story.py            *)
(* generate_story; the with_retry wrappers of the three services)          *)
(***************************************************************************)
\* @with_retry(max_attempts=3) on StoryEngine.generate_story
StoryMaxAttempts == 3

\* (mutant) the story stage is given a fourth attempt
StageMaxAttemptsStoryFour(stage) ==
    CASE stage = "analysis" -> ProcessorMaxAttempts
      [] stage = "story" -> StoryMaxAttempts + 1
      [] OTHER -> QuizMaxAttempts

\* max_attempts of the wrapper around the function a stage awaits
StageMaxAttempts(stage) ==
    CASE stage = "analysis" -> ProcessorMaxAttempts
      [] stage = "story" -> StoryMaxAttempts
      [] OTHER -> QuizMaxAttempts

\* The stage awaits process_keywords, whose vendor call sits inside
\* _interpret_keywords_with_ai's own try/except.
KeywordAnalysis == gStage = "analysis" /\ gInputType = "keyword"

NoCalls == [stage \in {"analysis", "story", "quiz"} |-> 0]

PipelineInit ==
    /\ gInputType \in InputTypes
    /\ gHasInput \in BOOLEAN
    /\ gMatched \in BOOLEAN
    /\ gStage = "start"
    /\ gPc = "call"
    /\ gAttempt = 0
    /\ gCalls = NoCalls
    /\ gSucceeded = {}
    /\ gStatus = 0

PipelineIdle ==
    /\ gInputType = "keyword"
    /\ gHasInput = TRUE
    /\ gMatched = TRUE
    /\ gStage = "done"
    /\ gPc = "done"
    /\ gAttempt = 0
    /\ gCalls = NoCalls
    /\ gSucceeded = {}
    /\ gStatus = 0

\* The await of the stage has returned: the handler goes on to the next
\* await, or attaches the quiz, caches the story and returns it.
StageSucceeds ==
    /\ gSucceeded' = gSucceeded \cup { gStage }
    /\ gAttempt' = 0
    /\ IF gStage = "quiz"
       THEN gStage' = "done" /\ gPc' = "done" /\ gStatus' = 200
       ELSE /\ gStage' = (IF gStage = "analysis" THEN "story" ELSE "quiz")
            /\ gPc' = "call"
            /\ gStatus' = gStatus

\* generate_story starts: it raises its HTTPException(400) inside the try
\* block, or awaits the analysis
PipelineStarts ==
    /\ gStage = "start"
    /\ IF GenerateFirstStep(gInputType, gHasInput, gHasInput) = "raise400"
       THEN /\ gStage' = "done"
            /\ gPc' = "done"
            /\ gStatus' = HandlerStatusFor("HTTPException")
       ELSE /\ gStage' = "analysis"
            /\ gPc' = "call"
            /\ gStatus' = gStatus
    /\ UNCHANGED <<gInputType, gHasInput, gMatched, gAttempt, gCalls, gSucceeded>>
    /\ UNCHANGED exceptPipeline

\* process_keywords finds topics and returns without a vendor call
StageKeywordsMatched ==
    /\ KeywordAnalysis
    /\ gPc = "call"
    /\ gMatched
    /\ StageSucceeds
    /\ UNCHANGED <<gInputType, gHasInput, gMatched, gCalls>>
    /\ UNCHANGED exceptPipeline

\* the body of the awaited function is invoked and awaits the vendor
StageCallsVendor ==
    /\ gStage \in {"analysis", "story", "quiz"}
    /\ gPc = "call"
    /\ ~(KeywordAnalysis /\ gMatched)
    /\ gAttempt' = gAttempt + 1
    /\ gCalls' = [gCalls EXCEPT ![gStage] = @ + 1]
    /\ gPc' = "vendor"
    /\ UNCHANGED <<gInputType, gHasInput, gMatched, gStage, gSucceeded, gStatus>>
    /\ UNCHANGED exceptPipeline

\* the vendor replies and the body returns its result
StageVendorReturns ==
    /\ gStage \in {"analysis", "story", "quiz"}
    /\ gPc = "vendor"
    /\ StageSucceeds
    /\ UNCHANGED <<gInputType, gHasInput, gMatched, gCalls>>
    /\ UNCHANGED exceptPipeline

\* keyword input: the vendor call or the parsing raises, and
\* _interpret_keywords_with_ai returns its fallback
StageKeywordsFallback ==
    /\ KeywordAnalysis
    /\ gPc = "vendor"
    /\ StageSucceeds
    /\ UNCHANGED <<gInputType, gHasInput, gMatched, gCalls>>
    /\ UNCHANGED exceptPipeline

\* the body raises APICallError within the budget: the wrapper sleeps
StageFailsSleeps ==
    /\ gStage \in {"analysis", "story", "quiz"}
    /\ gPc = "vendor"
    /\ ~KeywordAnalysis
    /\ AfterFailure("APICallError", gAttempt, StageMaxAttempts(gStage), {"Exception"})
          = "sleep"
    /\ gPc' = "sleep"
    /\ UNCHANGED <<gInputType, gHasInput, gMatched, gStage, gAttempt, gCalls, gSucceeded,
                   gStatus>>
    /\ UNCHANGED exceptPipeline

\* the body raises APICallError at the last attempt: the wrapper raises it
\* and the handler's except Exception answers 500
StageFailsLastAttempt ==
    /\ gStage \in {"analysis", "story", "quiz"}
    /\ gPc = "vendor"
    /\ ~KeywordAnalysis
    /\ AfterFailure("APICallError", gAttempt, StageMaxAttempts(gStage), {"Exception"})
          # "sleep"
    /\ gStage' = "done"
    /\ gPc' = "done"
    /\ gStatus' = HandlerStatusFor("APICallError")
    /\ UNCHANGED <<gInputType, gHasInput, gMatched, gAttempt, gCalls, gSucceeded>>
    /\ UNCHANGED exceptPipeline

\* the sleep ends: the body is invoked again
StageWakes ==
    /\ gPc = "sleep"
    /\ gPc' = "call"
    /\ UNCHANGED <<gInputType, gHasInput, gMatched, gStage, gAttempt, gCalls, gSucceeded,
                   gStatus>>
    /\ UNCHANGED exceptPipeline

(***************************************************************************)
(* Specifications                                                          *)
(***************************************************************************)
MatcherNext == CallFindMatchingTopics

InitMatcher ==
    MatcherInit /\ RetryIdle /\ QuizIdle /\ RouterIdle /\ AudioIdle /\ ProcessorIdle
        /\ InputIdle /\ VoiceIdle /\ ParserIdle /\ PipelineIdle

SpecMatcher == InitMatcher /\ [][MatcherNext]_vars

RetryNext ==
    \/ RetryCallReturns
    \/ RetryCallRaisesNotRetryable
    \/ RetryCallRaisesLastAttempt
    \/ RetryCallRaisesSleeps
    \/ RetryWakes

InitRetry ==
    RetryInit /\ MatcherIdle /\ QuizIdle /\ RouterIdle /\ AudioIdle /\ ProcessorIdle
        /\ InputIdle /\ VoiceIdle /\ ParserIdle /\ PipelineIdle

SpecRetry == InitRetry /\ [][RetryNext]_vars

QuizNext ==
    \/ QuizCallsVendor
    \/ QuizReturns
    \/ QuizFailsSleeps
    \/ QuizFailsLastAttempt
    \/ QuizWakes

InitQuiz ==
    QuizInit /\ MatcherIdle /\ RetryIdle /\ RouterIdle /\ AudioIdle /\ ProcessorIdle
        /\ InputIdle /\ VoiceIdle /\ ParserIdle /\ PipelineIdle

SpecQuiz == InitQuiz /\ [][QuizNext]_vars

Next ==
    \/ GenerateRejected
    \/ GenerateReceived
    \/ FromAnalysisReceived
    \/ AnalysisDone
    \/ AnalysisFailed
    \/ StoryDone
    \/ StoryFailed
    \/ QuizDone
    \/ QuizFailed
    \/ RegenerateReceived
    \/ RegenerateDone
    \/ RegenerateFailed
    \/ GetStory
    \/ ListStories

Init ==
    RouterInit /\ MatcherIdle /\ RetryIdle /\ QuizIdle /\ AudioIdle /\ ProcessorIdle
        /\ InputIdle /\ VoiceIdle /\ ParserIdle /\ PipelineIdle

Spec == Init /\ [][Next]_vars

\* The POST handlers of the story router, from a cache that holds a story.
PostNext ==
    \/ GenerateRejected
    \/ GenerateReceived
    \/ FromAnalysisReceived
    \/ AnalysisDone
    \/ AnalysisFailed
    \/ StoryDone
    \/ StoryFailed
    \/ QuizDone
    \/ QuizFailed
    \/ RegenerateReceived
    \/ RegenerateDone
    \/ RegenerateFailed

InitCached ==
    RouterCachedInit /\ MatcherIdle /\ RetryIdle /\ QuizIdle /\ AudioIdle /\ ProcessorIdle
        /\ InputIdle /\ VoiceIdle /\ ParserIdle /\ PipelineIdle

SpecCached == InitCached /\ [][PostNext]_vars

InitAged ==
    RouterAgedInit /\ MatcherIdle /\ RetryIdle /\ QuizIdle /\ AudioIdle /\ ProcessorIdle
        /\ InputIdle /\ VoiceIdle /\ ParserIdle /\ PipelineIdle

SpecAged == InitAged /\ [][PostNext]_vars

AudioNext ==
    \/ ClockAdvances
    \/ GenerateAudioReceived
    \/ EdgeSaves
    \/ EdgeFails
    \/ GttsSaves
    \/ GttsFails
    \/ GetAudio
    \/ DeleteAudioRequest
    \/ CleanupOldAudio

InitAudio ==
    AudioInit /\ MatcherIdle /\ RetryIdle /\ QuizIdle /\ RouterIdle /\ ProcessorIdle
        /\ InputIdle /\ VoiceIdle /\ ParserIdle /\ PipelineIdle

SpecAudio == InitAudio /\ [][AudioNext]_vars

ProcessorNext ==
    \/ KeywordsMatched
    \/ KeywordsCallsVendor
    \/ KeywordsVendorEnds
    \/ ImageCallsVendor
    \/ ImageReturns
    \/ ImageFailsSleeps
    \/ ImageFailsLastAttempt
    \/ ImageWakes

InitProcessor ==
    ProcessorInit /\ MatcherIdle /\ RetryIdle /\ QuizIdle /\ RouterIdle /\ AudioIdle
        /\ InputIdle /\ VoiceIdle /\ ParserIdle /\ PipelineIdle

SpecProcessor == InitProcessor /\ [][ProcessorNext]_vars

InputNext ==
    \/ InputValidated
    \/ InputRejected
    \/ HandlerRaisesInsideTry
    \/ HandlerCallsProcessor
    \/ HandlerGetsAnalysis
    \/ HandlerGetsError

InitInput ==
    InputInit /\ MatcherIdle /\ RetryIdle /\ QuizIdle /\ RouterIdle /\ AudioIdle
        /\ ProcessorIdle /\ VoiceIdle /\ ParserIdle /\ PipelineIdle

SpecInput == InitInput /\ [][InputNext]_vars

VoiceNext ==
    \/ VoiceSelected
    \/ StreamVoiceSelected

InitVoice ==
    VoiceInit /\ MatcherIdle /\ RetryIdle /\ QuizIdle /\ RouterIdle /\ AudioIdle
        /\ ProcessorIdle /\ InputIdle /\ ParserIdle /\ PipelineIdle

SpecVoice == InitVoice /\ [][VoiceNext]_vars

ParserNext == CallParseStoryResponse

InitParser ==
    ParserInit /\ MatcherIdle /\ RetryIdle /\ QuizIdle /\ RouterIdle /\ AudioIdle
        /\ ProcessorIdle /\ InputIdle /\ VoiceIdle /\ PipelineIdle

SpecParser == InitParser /\ [][ParserNext]_vars

PipelineNext ==
    \/ PipelineStarts
    \/ StageKeywordsMatched
    \/ StageCallsVendor
    \/ StageVendorReturns
    \/ StageKeywordsFallback
    \/ StageFailsSleeps
    \/ StageFailsLastAttempt
    \/ StageWakes

InitPipeline ==
    PipelineInit /\ MatcherIdle /\ RetryIdle /\ QuizIdle /\ RouterIdle /\ AudioIdle
        /\ ProcessorIdle /\ InputIdle /\ VoiceIdle /\ ParserIdle

\* Every vendor call returns or fails, every sleep ends and the event loop
\* runs the request: a step that can be taken is taken.
SpecPipeline == InitPipeline /\ [][PipelineNext]_vars /\ WF_vars(PipelineNext)

(***************************************************************************)
(* Claims about the curriculum matcher (under SpecMatcher)                 *)
(***************************************************************************)
ScoreForCall(topic) == TopicScore(topic, NormalizeKeywords(mKeywords))

\* C1: find_matching_topics(K, N) returns at most N topics, in non-increasing
\* order of their score for K, and never a topic whose score for K is 0.
C1_TopNSortedNoZero ==
    mCalled =>
        /\ Len(mResult) <= mMaxResults
        /\ \A i, j \in 1..Len(mResult) :
               i < j => ScoreForCall(mResult[i]) >= ScoreForCall(mResult[j])
        /\ \A i \in 1..Len(mResult) :
               /\ ScoreForCall(mResult[i]) > 0
               /\ \E k \in 1..Len(topics) : topics[k] = mResult[i]

\* a call that had to cut and to reorder: more topics scored than the cap
\* lets through, a topic scored 0, and the first topic returned was inserted
\* after a lower-scored one
C1_Witness ==
    /\ mCalled
    /\ Len(mScores) > mMaxResults
    /\ Len(mResult) >= 1
    /\ \E k \in 1..Len(topics) : ScoreForCall(topics[k]) = 0
    /\ \E k, n \in 1..Len(topics) :
          /\ k < n
          /\ topics[n] = mResult[1]
          /\ ScoreForCall(topics[k]) > 0
          /\ ScoreForCall(topics[k]) < ScoreForCall(topics[n])

\* The score as C2 words it: each of the four bonuses once per keyword.
ClaimedKeywordScore(kw, topic) ==
    LET tks == TopicKeywords(topic)
    IN  (IF \E i \in 1..Len(tks) : tks[i] = kw THEN 10 ELSE 0)
        + (IF \E i \in 1..Len(tks) : Contains(tks[i], kw) \/ Contains(kw, tks[i])
           THEN 5 ELSE 0)
        + (IF Contains(Lower(topic.name), kw) THEN 8 ELSE 0)
        + (IF Contains(Lower(topic.description), kw) THEN 3 ELSE 0)

\* The score as the code counts it: the +5 once per topic keyword that matches.
PerTopicKeywordScore(kw, topic) ==
    LET tks == TopicKeywords(topic)
    IN  (IF \E i \in 1..Len(tks) : tks[i] = kw THEN 10 ELSE 0)
        + 5 * Cardinality({i \in 1..Len(tks) :
                              Contains(tks[i], kw) \/ Contains(kw, tks[i])})
        + (IF Contains(Lower(topic.name), kw) THEN 8 ELSE 0)
        + (IF Contains(Lower(topic.description), kw) THEN 3 ELSE 0)

RECURSIVE SumOver(_, _, _)
SumOver(Op(_, _), kws, topic) ==
    IF kws = <<>> THEN 0
    ELSE Op(Head(kws), topic) + SumOver(Op, Tail(kws), topic)

\* the score the call gave a topic: its entry in the scores dict, 0 if none
ScoreGiven(topic) ==
    IF \E i \in 1..Len(mScores) : mScores[i].id = topic.id
    THEN mScores[CHOOSE i \in 1..Len(mScores) : mScores[i].id = topic.id].score
    ELSE 0

\* C2 (as claimed): the score is the sum over the normalised keywords of
\* +10 exact, +5 partial, +8 name, +3 description, each counted once per
\* keyword, so one keyword contributes at most 26 to one topic.
C2_ScoreOncePerKeyword ==
    mCalled =>
        \A k \in 1..Len(topics) :
            /\ ScoreGiven(topics[k])
                 = SumOver(ClaimedKeywordScore, NormalizeKeywords(mKeywords), topics[k])
            /\ ScoreGiven(topics[k]) <= 26 * Len(mKeywords)

\* C2 (amended): the +5 bonus is counted once for every keyword of the topic
\* that the input keyword is a substring of or contains; the other three
\* bonuses once per input keyword; one keyword contributes at most
\* 21 + 5 * (number of the topic's keywords).
C2_ScorePerTopicKeyword ==
    mCalled =>
        \A k \in 1..Len(topics) :
            /\ ScoreGiven(topics[k])
                 = SumOver(PerTopicKeywordScore, NormalizeKeywords(mKeywords), topics[k])
            /\ ScoreGiven(topics[k])
                 <= (21 + 5 * Len(topics[k].keywords)) * Len(mKeywords)

\* a keyword (" ab", normalised "ab") that matches two keywords of one topic
C2_Witness ==
    /\ mCalled
    /\ \E k \in 1..Len(topics), n \in 1..Len(mKeywords) :
          LET kw == NormalizeKeywords(mKeywords)[n]
              tks == TopicKeywords(topics[k])
          IN  /\ kw # mKeywords[n]
              /\ Cardinality({i \in 1..Len(tks) :
                     Contains(tks[i], kw) \/ Contains(kw, tks[i])}) >= 2
              /\ ScoreGiven(topics[k]) > 26 * Len(mKeywords)

(***************************************************************************)
(* Claims about the retry wrapper (under SpecRetry)                        *)
(***************************************************************************)
RetryAll == rExceptions = {"Exception"}

\* C4: a function wrapped by with_retry(max_attempts=M) that fails on its first
\* k invocations (k < M) and then succeeds returns the success value after
\* exactly k+1 invocations and exactly k sleeps.
C4_SuccessAfterKFailures ==
    (RetryAll /\ Len(rFailKinds) < rMax) =>
        /\ rCalls <= Len(rFailKinds) + 1
        /\ Len(rSlept) <= Len(rFailKinds)
        /\ rOutcome.kind # "raised"
        /\ rPc = "done" =>
              /\ rOutcome = [kind |-> "returned", value |-> rSuccess]
              /\ rCalls = Len(rFailKinds) + 1
              /\ Len(rSlept) = Len(rFailKinds)

\* failing twice then succeeding under max_attempts=3: returned, slept twice
C4_Witness ==
    /\ RetryAll
    /\ rMax = 3
    /\ Len(rFailKinds) = 2
    /\ rPc = "done"
    /\ rOutcome = [kind |-> "returned", value |-> rSuccess]
    /\ rCalls = 3
    /\ Len(rSlept) = 2

\* C5: a function wrapped by with_retry(max_attempts=M) that fails on every
\* invocation is invoked exactly M times, and the wrapper then raises the
\* exception of the last invocation itself, not a RetryError.
C5_ExhaustedRaisesLast ==
    (RetryAll /\ Len(rFailKinds) >= rMax) =>
        /\ rCalls <= rMax
        /\ rOutcome.kind # "returned"
        /\ rPc = "done" =>
              /\ rCalls = rMax
              /\ rOutcome = [kind |-> "raised",
                             exception |-> [kind |-> rFailKinds[rMax], call |-> rMax]]
              /\ rOutcome.exception.kind # "RetryError"

\* three failures of different kinds under max_attempts=3: the third is raised
C5_Witness ==
    /\ RetryAll
    /\ rMax = 3
    /\ Len(rFailKinds) = 3
    /\ rFailKinds[1] # rFailKinds[3]
    /\ rPc = "done"
    /\ rCalls = 3
    /\ rOutcome.kind = "raised"
    /\ rOutcome.exception = [kind |-> rFailKinds[3], call |-> 3]

(***************************************************************************)
(* Claims about the quiz generator (under SpecQuiz)                        *)
(***************************************************************************)
\* C3: every QuizResponse generate_quiz returns, for any vendor reply and any
\* requested count, has between 1 and 5 questions, each with exactly 4
\* options and a correct_answer in 0..3.
C3_QuizShape ==
    qOutcome.kind = "returned" =>
        /\ Len(qOutcome.quiz.questions) \in 1..5
        /\ \A i \in 1..Len(qOutcome.quiz.questions) :
              /\ Len(qOutcome.quiz.questions[i].options) = 4
              /\ qOutcome.quiz.questions[i].correct_answer \in 0..3

\* six questions asked for, six sent with five options and answer index 4
\* each: five come back, repaired
C3_Witness ==
    /\ qOutcome.kind = "returned"
    /\ qNumQuestions = 6
    /\ qReply.kind = "reply"
    /\ qReply.body.kind = "object"
    /\ qReply.body.has_questions
    /\ Len(qReply.body.questions) = 6
    /\ qReply.body.questions[1] = SloppyQ
    /\ Len(qOutcome.quiz.questions) = 5
    /\ qOutcome.quiz.questions[1].correct_answer = 0

\* C10: when the vendor's reply cannot be parsed as JSON, generate_quiz
\* returns a QuizResponse holding exactly the fixed fallback question, and
\* that reply is the last vendor call: it causes no retry.
C10_UnparsableGivesFallback ==
    (qReply.kind = "reply" /\ ~JsonLoads(qReply)) =>
        /\ qPc = "done"
        /\ qOutcome.kind = "returned"
        /\ qOutcome.quiz.questions = << FallbackQuestion >>
        /\ qCalls = qFailed + 1
        /\ Len(qSlept) = qFailed
        /\ (qFailed = 0 => qCalls = 1)

\* the first reply is not JSON: one vendor call, no sleep, the fallback
C10_Witness ==
    /\ qReply.kind = "reply"
    /\ qReply.body.kind = "text"
    /\ qPc = "done"
    /\ qCalls = 1
    /\ qSlept = <<>>
    /\ qOutcome.kind = "returned"
    /\ qOutcome.quiz.questions = << FallbackQuestion >>

(***************************************************************************)
(* Claims about the story cache (under Spec)                               *)
(***************************************************************************)
\* The number of whitespace-separated tokens of s: the positions where a
\* token starts.
TokenCount(s) ==
    Cardinality({ i \in 1..Len(s) :
                    /\ ~IsSpace(s[i])
                    /\ (i = 1 \/ IsSpace(s[i - 1])) })

WordCountMatches(story) == story.word_count = TokenCount(story.content)

\* C6: every StoryResponse the engine has returned (cached or not), and every
\* story in a response body, has word_count equal to the number of
\* whitespace-separated tokens of its content, also after its quiz has been
\* attached or regenerated.
C6_WordCountIsTokenCount ==
    /\ \A ref \in DOMAIN heap : WordCountMatches(heap[ref])
    /\ \A i \in 1..Len(story_cache) : WordCountMatches(heap[story_cache[i].ref])
    /\ \A i \in 1..Len(http.body) : WordCountMatches(http.body[i])

\* A cached three-word story, cut out of a longer reply, whose quiz has just
\* been regenerated.
C6_Witness ==
    /\ http.op = "regenerate"
    /\ http.status = 200
    /\ CacheGet(http.key) # 0
    /\ heap[CacheGet(http.key)].quiz = http.quiz
    /\ heap[CacheGet(http.key)].title = <<"T">>
    /\ heap[CacheGet(http.key)].word_count = 3

\* story without its quiz
WithoutQuiz(story) == [story EXCEPT !.quiz = NoQuiz]

\* What a step may do to the story cached under a returned id: the key keeps
\* the same object, the object keeps every field but its quiz, and its quiz
\* changes only when regenerate_quiz answers for this id with the new quiz.
ReturnedStoryKept(id) ==
    /\ CacheGet(id)' = CacheGet(id)
    /\ WithoutQuiz(heap'[CacheGet(id)]) = WithoutQuiz(heap[CacheGet(id)])
    /\ heap'[CacheGet(id)].quiz # heap[CacheGet(id)].quiz
         => /\ http'.op = "regenerate"
            /\ http'.status = 200
            /\ http'.key = id
            /\ http'.quiz = heap'[CacheGet(id)].quiz

\* C7: once /generate or /from-analysis has returned a story with id X, the
\* cache holds X for ever and GET X answers 200 with that story (the object
\* returned, with the quiz it has now); no step removes a key from the cache.
C7_ReturnedStoryStaysRetrievable ==
    /\ [](\A id \in returned :
            /\ id \in CacheKeys
            /\ GetStoryResponse(id).status = 200
            /\ GetStoryResponse(id).body[1].story_id = id
            /\ (http.op = "get" /\ http.key = id) => http = GetStoryResponse(id))
    /\ [][ /\ CacheKeys \subseteq CacheKeys'
           /\ \A id \in returned : ReturnedStoryKept(id)
           /\ \A id \in returned' \ returned :
                 /\ http'.op \in {"generate", "from_analysis"}
                 /\ http'.status = 200
                 /\ http'.key = id
                 /\ http'.body = << heap'[CacheGet(id)'] >> ]_vars

\* GET of the first story returned answers 200 after a second story has been
\* generated and cached.
C7_Witness ==
    /\ Len(story_cache) = 2
    /\ http.op = "get"
    /\ http.status = 200
    /\ http.key = story_cache[1].key
    /\ http.key \in returned
    /\ http.body = << heap[story_cache[1].ref] >>

(***************************************************************************)
(* Claims about the audio files (under SpecAudio)                          *)
(***************************************************************************)
\* The age in seconds of file f at the time of the current state.
AgeOf(f) == clock - f.mtime

\* C8: a step of cleanup_old_files(H) removes exactly the mp3 files whose age
\* is greater than H*3600 seconds and answers their number; an mp3 file whose
\* age is H*3600 or less, and every other file, stays.
C8_CleanupDeletesExactlyOlder ==
    [][ aHttp'.op = "cleanup" =>
          /\ audio_dir' \subseteq audio_dir
          /\ \A f \in audio_dir :
                f \notin audio_dir'
                   <=> (f.ext = "mp3" /\ AgeOf(f) > aHttp'.hours * SecondsPerHour)
          /\ \A f \in audio_dir :
                (f.ext = "mp3" /\ AgeOf(f) = aHttp'.hours * SecondsPerHour)
                   => f \in audio_dir'
          /\ aHttp'.deleted_count = Cardinality(audio_dir \ audio_dir')
          /\ aHttp'.status = 200 ]_vars

\* cleanup_old_files(1) at time 3601 has just deleted one file (written at
\* time 0) and kept the mp3 file that is exactly 3600 seconds old, and the
\* older file that is no mp3.
C8_Witness ==
    /\ aHttp.op = "cleanup"
    /\ aHttp.hours = 1
    /\ aHttp.deleted_count = 1
    /\ clock = SecondsPerHour + 1
    /\ \E f \in audio_dir : f.ext = "mp3" /\ AgeOf(f) = SecondsPerHour
    /\ ForeignFile \in audio_dir

\* A request that is still generating the audio of this id.
Generating(audio_id) ==
    \E r \in DOMAIN aRequests : aRequests[r].audio_id = audio_id

\* C9: a step of DELETE for an id without a file answers 404 and leaves every
\* file alone; for an id with a file it answers 200 and removes that file and
\* no other, and then get_audio_file finds nothing and delete_audio returns
\* False. The file of a deleted id comes back only if a generation of that
\* very id was still running when it was deleted.
C9_DeleteReportsNotFound ==
    [][ /\ aHttp'.op = "delete" =>
              IF AudioFileExists(audio_dir, aHttp'.audio_id)
              THEN /\ aHttp'.status = 200
                   /\ audio_dir' = { f \in audio_dir :
                                       ~(f.id = aHttp'.audio_id /\ f.ext = "mp3") }
                   /\ GetAudioFile(audio_dir', aHttp'.audio_id) = 0
                   /\ ~DeleteAudio(audio_dir', aHttp'.audio_id).deleted
                   /\ DeleteAudio(audio_dir', aHttp'.audio_id).dir = audio_dir'
              ELSE /\ aHttp'.status = 404
                   /\ audio_dir' = audio_dir
        /\ \A audio_id \in aDeleted :
              (~AudioFileExists(audio_dir, audio_id)
                 /\ AudioFileExists(audio_dir', audio_id))
                 => Generating(audio_id)
        /\ \A audio_id \in aDeleted :
              (aHttp'.op \in {"get", "delete"} /\ aHttp'.audio_id = audio_id
                 /\ ~AudioFileExists(audio_dir, audio_id))
                 => aHttp'.status = 404 ]_vars

\* The second DELETE of an id whose audio had been generated and deleted
\* answers 404, the other file being still there.
C9_Witness ==
    /\ aHttp.op = "delete"
    /\ aHttp.status = 404
    /\ aHttp.audio_id \in aDeleted
    /\ ~Generating(aHttp.audio_id)
    /\ \E f \in audio_dir : f.ext = "mp3"

(***************************************************************************)
(* More claims about the quiz generator (under SpecQuiz)                   *)
(***************************************************************************)
\* The entries of a "questions" list that have all three keys.
CompleteQuestions(q_list) ==
    SelectSeq(q_list, LAMBDA q : q.has_question /\ q.has_options /\ q.has_answer)

\* The "questions" list of a reply that is a JSON object (data.get's default
\* is the empty list).
QuestionsOf(reply) ==
    IF reply.body.has_questions THEN reply.body.questions ELSE << >>

\* The last reply is JSON, an object, and each of its complete questions has
\* values that int() and QuizQuestion accept.
WellTypedReply ==
    /\ qReply.kind = "reply"
    /\ JsonLoads(qReply)
    /\ qReply.body.kind = "object"
    /\ \A i \in 1..Len(CompleteQuestions(QuestionsOf(qReply))) :
          /\ CompleteQuestions(QuestionsOf(qReply))[i].int_ok
          /\ CompleteQuestions(QuestionsOf(qReply))[i].types_ok

\* m: the structurally complete questions of the last reply
CompleteCount == Len(CompleteQuestions(QuestionsOf(qReply)))

MinOf(a, b) == IF a < b THEN a ELSE b

MatcherReturns == FindMatchingTopics(pKb, KeywordList(pKeywords), 3)

FirstTwo(list) == IF Len(list) <= 2 THEN list ELSE << list[1], list[2] >>

RECURSIVE FirstTwoObjectivesOfEach(_)
FirstTwoObjectivesOfEach(ts) ==
    IF ts = << >> THEN << >>
    ELSE FirstTwo(LearningObjectives(Head(ts))) \o FirstTwoObjectivesOfEach(Tail(ts))

\* C12: when the matcher returns at least one topic for the keywords,
\* process_keywords makes no vendor call and returns a result with confidence
\* 0.9, no detected objects, the matched topics' names as suggested_topics and
\* the first two learning objectives of each matched topic as
\* educational_concepts; the vendor is called only when the matcher returns
\* no topic.
C12_MatchedTopicsBypassVendor ==
    pOp = "keywords" =>
        /\ MatcherReturns # << >> => pCalls = 0
        /\ pCalls > 0 => MatcherReturns = << >>
        /\ (MatcherReturns # << >> /\ pPc = "done") =>
              /\ pOutcome.kind = "returned"
              /\ pOutcome.result.confidence = 9
              /\ pOutcome.result.detected_objects = << >>
              /\ Len(pOutcome.result.suggested_topics) = Len(MatcherReturns)
              /\ \A i \in 1..Len(MatcherReturns) :
                    pOutcome.result.suggested_topics[i] = MatcherReturns[i].name
              /\ pOutcome.result.educational_concepts
                    = FirstTwoObjectivesOfEach(MatcherReturns)

\* a call whose keywords matched several topics, one of them with more than
\* two learning objectives, has returned
C12_Witness ==
    /\ pOp = "keywords"
    /\ pPc = "done"
    /\ pCalls = 0
    /\ Len(MatcherReturns) >= 2
    /\ \E i \in 1..Len(MatcherReturns) : Len(LearningObjectives(MatcherReturns[i])) > 2
    /\ pOutcome.kind = "returned"

\* The vendor call of the keyword path, or the handling of its reply, failed:
\* the call raised, or the reply is not the JSON object with a confidence
\* between 0 and 1 that the contract asks for.
KeywordInterpretationFailed(outcome) ==
    \/ outcome.kind = "raises"
    \/ /\ outcome.kind = "reply"
       /\ \/ ~JsonLoads(outcome)
          \/ outcome.body.kind # "object"
          \/ /\ outcome.body.has_keys
             /\ \/ ~outcome.body.confidence_ok
                \/ outcome.body.confidence < 0
                \/ outcome.body.confidence > 10

\* the fixed fallback result for the keywords of the call
IsKeywordFallback(result) ==
    /\ result.confidence = 5
    /\ result.scene_description = <<"T","o","p","i","c",":"," ">> \o pKeywords
    /\ result.educational_concepts = << pKeywords >>
    /\ result.suggested_topics
         = << <<"G","e","n","e","r","a","l"," ","L","e","a","r","n","i","n","g">> >>

\* C13: when no curriculum topic matches and the vendor call or the handling
\* of its reply fails in any way, process_keywords raises nothing and returns
\* the fixed fallback: confidence 0.5, scene description 'Topic: <keywords>',
\* educational_concepts = [<keywords>], suggested_topics = ['General Learning'].
C13_AnyFailureGivesFallback ==
    (/\ pOp = "keywords"
     /\ pPc = "done"
     /\ MatcherReturns = << >>
     /\ KeywordInterpretationFailed(pReply)) =>
        /\ pOutcome.kind = "returned"
        /\ IsKeywordFallback(pOutcome.result)

\* a keyword call without a matching topic got a reply that is not JSON and
\* returned the image parser's basic result
C13_Witness ==
    /\ pOp = "keywords"
    /\ pPc = "done"
    /\ MatcherReturns = << >>
    /\ pReply.kind = "reply"
    /\ ~JsonLoads(pReply)
    /\ pOutcome.kind = "returned"
    /\ pOutcome.result.detected_objects = << <<"d","r","a","w","i","n","g">> >>
    /\ ~IsKeywordFallback(pOutcome.result)

\* the vendor's error message indicates throttling to the provider's helper
IndicatesThrottling(provider, outcome) ==
    /\ outcome.kind = "raises"
    /\ \/ provider \in {"openai", "groq"} /\ outcome.message = "rate_limit"
       \/ provider = "gemini" /\ outcome.message = "quota"

\* C14: analyze_image surfaces an error only after its 3 vendor attempts are
\* used up, and the error is RateLimitError when the vendor's error message
\* indicates throttling ('rate_limit', or 'quota' for Gemini) and the generic
\* APICallError otherwise.
C14_RateLimitErrorAfterBudget ==
    (pOp = "image" /\ pOutcome.kind = "raised") =>
        /\ pCalls = 3
        /\ pOutcome.exception
             = IF IndicatesThrottling(pProvider, pReply) THEN "RateLimitError"
                                                         ELSE "APICallError"

\* analyze_image has raised after three vendor calls whose last one failed
\* with a throttling message, and what it raised is the generic APICallError
C14_Witness ==
    /\ pOp = "image"
    /\ pOutcome.kind = "raised"
    /\ pCalls = 3
    /\ IndicatesThrottling(pProvider, pReply)
    /\ pOutcome.cause = "RateLimitError"
    /\ pOutcome.exception = "APICallError"

(***************************************************************************)
(* More claims about the speech service (under SpecAudio)                  *)
(***************************************************************************)
\* the step ends the generate_audio request r
Finishes(r) == r \in DOMAIN aRequests /\ r \notin DOMAIN aRequests'

\* C15: generate_audio raises only when Edge-TTS and then gTTS have failed;
\* when it raises, no <audio_id>.mp3 of that request is in the audio
\* directory, whatever either engine had written, and none appears later for
\* an id no request is generating; when Edge-TTS fails and gTTS succeeds, the
\* AudioResponse carries the audio id the request began with.
C15_RaisesOnlyAfterBothFailNoFileLeft ==
    [][ /\ \A r \in DOMAIN aRequests :
              /\ (Finishes(r) /\ aHttp'.status = 500) =>
                    /\ aRequests[r].pc = "gtts"
                    /\ aHttp'.audio_id = aRequests[r].audio_id
                    /\ ~AudioFileExists(audio_dir', aRequests[r].audio_id)
              /\ (Finishes(r) /\ aRequests[r].pc = "gtts" /\ aHttp'.status = 200) =>
                    /\ aHttp'.op = "generate"
                    /\ aHttp'.audio_id = aRequests[r].audio_id
                    /\ AudioFileExists(audio_dir', aRequests[r].audio_id)
              /\ (~Finishes(r) /\ aRequests[r].pc = "edge") =>
                    aRequests'[r].audio_id = aRequests[r].audio_id
        /\ \A audio_id \in 1..nextAudioId :
              (~AudioFileExists(audio_dir, audio_id)
                 /\ AudioFileExists(audio_dir', audio_id))
                 => \E r \in DOMAIN aRequests : aRequests[r].audio_id = audio_id ]_vars

\* generate_audio has raised for a request whose primary engine had left a
\* partial file (a DELETE removed it meanwhile); no file of its id is left,
\* the file of another request is
C15_Witness ==
    /\ aHttp.op = "generate"
    /\ aHttp.status = 500
    /\ aHttp.audio_id \in aDeleted
    /\ ~AudioFileExists(audio_dir, aHttp.audio_id)
    /\ \E f \in audio_dir : f.ext = "mp3"

\* C16: after any sequence of generate, delete and cleanup operations, every
\* audio id returned in an AudioResponse and since then neither deleted nor
\* swept has its <audio_id>.mp3, so get_audio_file finds it; a returned id
\* that was deleted or swept since is not found.
C16_ReturnedIdHasFileUnlessRemoved ==
    \A audio_id \in DOMAIN aIssued :
        IF aIssued[audio_id] = "kept"
        THEN GetAudioFile(audio_dir, audio_id) = audio_id
        ELSE GetAudioFile(audio_dir, audio_id) = 0

\* a cleanup has swept the file of one returned id and passed by the file of
\* another, which is still found
C16_Witness ==
    /\ \E a, b \in DOMAIN aIssued :
          /\ aIssued[a] = "swept"
          /\ aIssued[b] = "kept"
          /\ AudioFileExists(audio_dir, b)
          /\ ~AudioFileExists(audio_dir, a)
    /\ aHttp.op = "cleanup"

(***************************************************************************)
(* Claims about the input check (under SpecInput)                          *)
(***************************************************************************)
\* the request lacks the field its input type needs
RequiredFieldMissing ==
    IF iInputType \in {"sketch", "diagram"}
    THEN ~iImageData.present \/ iImageData.value = << >>
    ELSE ~iKeywords.present \/ iKeywords.value = << >>

\* C17: POST /api/input/analyze and POST /api/story/generate answer 400 when
\* the input type is sketch or diagram and the image data is missing, or the
\* input type is keyword and the keywords are missing; never 500.
C17_MissingFieldAnswers400 ==
    (iPc = "done" /\ RequiredFieldMissing) => iStatus = 400

\* the handler, called with a keyword request without keywords, answered 500
C17_Witness ==
    /\ iPc = "done"
    /\ iVia = "direct"
    /\ iInputType = "keyword"
    /\ ~iKeywords.present
    /\ iStatus = 500

(***************************************************************************)
(* Claims about the voice selection (under SpecVoice)                      *)
(***************************************************************************)
\* C20: generate_audio takes the caller's voice if one is given; else the
\* child-friendly voice of the language if the child-voice preference is on
\* and the language is in the child-voice table; else the language's entry in
\* the general voice table; else the configured default voice.
C20_VoicePriority ==
    vPc = "done" =>
        LET given == vVoice.present /\ vVoice.name # ""
            child == vUseChildVoice /\ vLanguage \in {"en", "es", "fr", "de"}
            general == vLanguage \in DOMAIN VOICE_MAP
        IN  /\ given => vSelected = vVoice.name
            /\ (~given /\ child) => vSelected = CHILD_VOICES[vLanguage]
            /\ (~given /\ ~child /\ general) => vSelected = VOICE_MAP[vLanguage]
            /\ (~given /\ ~child /\ ~general) => vSelected = vDefaultVoice

\* a language of the child-voice table with the preference off got its
\* general voice, which is neither the child's voice nor the default
C20_Witness ==
    /\ vPc = "done"
    /\ ~vVoice.present
    /\ ~vUseChildVoice
    /\ vLanguage \in DOMAIN CHILD_VOICES
    /\ vSelected = VOICE_MAP[vLanguage]
    /\ vSelected # CHILD_VOICES[vLanguage]
    /\ vSelected # vDefaultVoice

(***************************************************************************)
(* Claims about the POST handlers of the story router (under SpecCached)   *)
(***************************************************************************)
\* the story cached under key in a cache and a heap
CachedStory(cache, hp, key) ==
    hp[cache[CHOOSE i \in 1..Len(cache) : cache[i].key = key].ref]

\* the step ends request r
Ends(r) == r \in DOMAIN requests /\ r \notin DOMAIN requests'

\* C18: POST /api/story/{id}/quiz answers 404 when id is not in the cache (and
\* only then); when it returns quiz Q, the story cached under id has quiz Q
\* at that moment, every other field of that story and every other cache
\* entry is as the step found it, whatever generate or regenerate requests
\* ran in between.
C18_RegenerateOverwritesOnlyQuiz ==
    [][ /\ (http'.op = "regenerate" /\ http'.status = 404) => http'.key \notin CacheKeys
        /\ \A r \in DOMAIN requests' :
              (r \notin DOMAIN requests /\ requests'[r].op = "regenerate")
                 => requests'[r].key \in CacheKeys
        /\ \A r \in DOMAIN requests :
              (Ends(r) /\ requests[r].op = "regenerate" /\ http'.status = 200) =>
                 /\ http'.op = "regenerate"
                 /\ http'.key = requests[r].key
                 /\ [i \in 1..Len(story_cache') |-> story_cache'[i].key]
                      = [i \in 1..Len(story_cache) |-> story_cache[i].key]
                 /\ CachedStory(story_cache', heap', requests[r].key).quiz = http'.quiz
                 /\ WithoutQuiz(CachedStory(story_cache', heap', requests[r].key))
                      = WithoutQuiz(CachedStory(story_cache, heap, requests[r].key))
                 /\ \A key \in CacheKeys \ { requests[r].key } :
                       CachedStory(story_cache', heap', key)
                         = CachedStory(story_cache, heap, key) ]_vars

\* a regenerate of story 1 has returned its one-question quiz after another
\* story was generated and cached while it ran; that story keeps its quiz of
\* three questions
C18_Witness ==
    /\ http.op = "regenerate"
    /\ http.status = 200
    /\ http.key = 1
    /\ Len(story_cache) = 2
    /\ requests = << >>
    /\ CachedStory(story_cache, heap, 1).quiz = http.quiz
    /\ Len(http.quiz.questions) = 1
    /\ \E key \in CacheKeys \ {1} :
          /\ CachedStory(story_cache, heap, key).quiz # NoQuiz
          /\ Len(CachedStory(story_cache, heap, key).quiz.questions) = 3

\* C19: a request to /generate, /from-analysis or /{id}/quiz that fails at any
\* stage is answered with an error and has changed nothing of the cache: the
\* failing step leaves every entry and every cached story as it was, the story
\* the request had generated so far is not cached, and the cache changes only
\* in a step that answers 200.
C19_FailureLeavesCacheAlone ==
    [][ /\ \A r \in DOMAIN requests :
              (Ends(r) /\ http'.status # 200) =>
                 /\ http'.status = 500
                 /\ http'.op = requests[r].op
                 /\ story_cache' = story_cache
                 /\ \A key \in CacheKeys :
                       CachedStory(story_cache', heap', key)
                         = CachedStory(story_cache, heap, key)
                 /\ (requests[r].op # "regenerate" /\ requests[r].story # 0) =>
                       \A i \in 1..Len(story_cache') :
                           story_cache'[i].ref # requests[r].story
        /\ (\/ story_cache' # story_cache
            \/ \E key \in CacheKeys :
                  CachedStory(story_cache', heap', key) # CachedStory(story_cache, heap, key))
              => /\ http'.status = 200
                 /\ \E r \in DOMAIN requests : Ends(r) ]_vars

\* /generate has been answered 500 after both requests of the run were
\* received and a second story was cached: the cache holds the two stories
\* and no other story is left
C19_Witness ==
    /\ http.op = "generate"
    /\ http.status = 500
    /\ nRequests = 2
    /\ Len(story_cache) = 2
    /\ DOMAIN heap = { story_cache[i].ref : i \in 1..Len(story_cache) }
    /\ requests = << >>

(***************************************************************************)
(* Claims about ties in the curriculum matcher (under SpecMatcher)         *)
(***************************************************************************)
\* The position of a topic in the topic map's insertion order.
InsertionIndex(topic) == CHOOSE k \in 1..Len(topics) : topics[k] = topic

\* C21: topics with the same score are returned in the insertion order of
\* the topic map, and when the cap leaves out a topic whose score equals
\* that of a returned topic, the topic left out was inserted later.
C21_TiesInInsertionOrder ==
    mCalled =>
        \A score \in { [k \in 1..Len(topics) |-> ScoreForCall(topics[k])] } :
        \A index \in { [i \in 1..Len(mResult) |-> InsertionIndex(mResult[i])] } :
           /\ \A i, j \in 1..Len(mResult) :
                 (i < j /\ score[index[i]] = score[index[j]]) => index[i] < index[j]
           /\ \A k \in 1..Len(topics) :
                 \A i \in 1..Len(mResult) :
                    ( /\ score[k] = score[index[i]]
                      /\ \A j \in 1..Len(mResult) : index[j] # k )
                       => index[i] < k

\* a call whose cap cut between two topics of the same score: the last
\* topic returned ties with a topic that was left out
C21_Witness ==
    /\ mCalled
    /\ Len(mResult) = mMaxResults
    /\ Len(mResult) >= 1
    /\ \E k \in 1..Len(topics) :
          /\ \A j \in 1..Len(mResult) : mResult[j] # topics[k]
          /\ ScoreForCall(topics[k]) = ScoreForCall(mResult[Len(mResult)])

(***************************************************************************)
(* Claims about the image fallback and the enrichment (under SpecProcessor)*)
(***************************************************************************)
\* analyze_image has ended on a vendor reply that json.loads rejects,
\* in a processor that holds the default topics
UnparsableWithDefaults ==
    /\ pOp = "image"
    /\ pPc = "done"
    /\ pKb = DefaultTopics
    /\ pReply.kind = "reply"
    /\ ~JsonLoads(pReply)

\* C22: when the vendor's image-analysis reply is not JSON, analyze_image
\* returns (it raises nothing and calls the vendor no more), and with the
\* default topics what it returns is the fixed fallback: detected_objects
\* ['drawing'], educational_concepts ['general learning'], suggested_topics
\* ['creative expression'], confidence 0.5.
C22_UnparsableGivesFixedFallback ==
    UnparsableWithDefaults =>
        /\ pOutcome.kind = "returned"
        /\ pOutcome.result.detected_objects = << Drawing >>
        /\ pOutcome.result.educational_concepts = << GeneralLearningLower >>
        /\ pOutcome.result.suggested_topics = << CreativeExpression >>
        /\ pOutcome.result.confidence = FallbackConfidence

\* the first vendor reply was not JSON and analyze_image returned with the
\* topic Human Body among the suggested topics
C22_Witness ==
    /\ UnparsableWithDefaults
    /\ pCalls = 1
    /\ pOutcome.kind = "returned"
    /\ \E i \in 1..Len(pOutcome.result.suggested_topics) :
          pOutcome.result.suggested_topics[i] = <<"H","u","m","a","n"," ","B","o","d","y">>
    /\ Len(pOutcome.result.educational_concepts) = 3

\* analyze_image has returned: what the helper parsed from the reply, and the
\* topics the enrichment matched for it
Parsed == ParseAnalysisResult(pReply).result
EnrichmentTopics ==
    FindMatchingTopics(pKb,
        Parsed.detected_objects \o Parsed.educational_concepts \o Parsed.suggested_topics,
        ProcessorMaxResults)

NoDuplicates(list) == \A i, j \in 1..Len(list) : i # j => list[i] # list[j]

\* C26: _enrich_with_curriculum only adds. When topics match (at most 3),
\* suggested_topics holds, without duplicates, the original suggested topics
\* and the matched topics' names, educational_concepts holds, without
\* duplicates, the original concepts and the first two learning objectives of
\* each matched topic, and detected_objects, scene_description and confidence
\* are the original ones; when no topic matches the result is the original.
C26_EnrichmentOnlyAdds ==
    (pOp = "image" /\ pPc = "done" /\ pOutcome.kind = "returned") =>
        \A before \in { Parsed } : \A matched \in { EnrichmentTopics } :
            LET after == pOutcome.result
            IN  IF matched = << >> THEN after = before
                ELSE /\ Len(matched) <= 3
                     /\ NoDuplicates(after.suggested_topics)
                     /\ Elements(after.suggested_topics) =
                           Elements(before.suggested_topics)
                              \cup { matched[i].name : i \in 1..Len(matched) }
                     /\ NoDuplicates(after.educational_concepts)
                     /\ Elements(after.educational_concepts) =
                           Elements(before.educational_concepts)
                              \cup UNION { Elements(FirstTwo(LearningObjectives(matched[i]))) :
                                             i \in 1..Len(matched) }
                     /\ after.detected_objects = before.detected_objects
                     /\ after.scene_description = before.scene_description
                     /\ after.confidence = before.confidence

\* analyze_image has returned a parsed reply that the enrichment extended:
\* the matched topic's name was already among the suggested topics and is
\* there once, and the concepts grew by the topic's objectives
C26_Witness ==
    /\ pOp = "image"
    /\ pPc = "done"
    /\ pOutcome.kind = "returned"
    /\ JsonLoads(pReply)
    /\ \E matched \in { EnrichmentTopics } :
          /\ matched # << >>
          /\ \E i \in 1..Len(Parsed.suggested_topics) :
                Parsed.suggested_topics[i] = matched[1].name
    /\ Len(pOutcome.result.suggested_topics) = Len(Parsed.suggested_topics)
    /\ Len(pOutcome.result.educational_concepts) > Len(Parsed.educational_concepts)

(***************************************************************************)
(* Claims about the story parser (under SpecParser)                        *)
(***************************************************************************)
\* The lines the parser scans.
ScannedLines == SplitOn(Strip(sResponse), "\n")

HasStoryMarker == Contains(Upper(sResponse), StoryMarker)
HasSummaryMarker == Contains(Upper(sResponse), SummaryMarker)
HasTitleMarker ==
    \E i \in 1..Len(ScannedLines) :
        StartsWith(ScannedLines[i], TitleMarker) \/ StartsWith(ScannedLines[i], HeadingMarker)

\* The first n whitespace tokens of a text, joined by single spaces.
FirstTokens(text, n) ==
    LET words == SplitWords(text)
    IN  Join([i \in 1..(IF Len(words) < n THEN Len(words) ELSE n) |-> words[i]], <<" ">>)

\* C23: when no line of the reply holds a STORY marker the content is the
\* whole reply, unchanged; when no SUMMARY marker is found the summary is the
\* first 50 whitespace tokens of the content joined by single spaces and
\* followed by '...'; when no title marker is found the title is the default.
C23_ParserFallbacks ==
    sPc = "done" =>
        /\ ~HasStoryMarker => sParsed.content = sResponse
        /\ ~HasSummaryMarker =>
              sParsed.summary = FirstTokens(sParsed.content, 50) \o <<".", ".", ".">>
        /\ ~HasTitleMarker => sParsed.title = DefaultTitle

\* a reply without any marker, with blanks at both ends and more than 50
\* words, has been parsed: the content kept the blanks, the summary was cut
C23_Witness ==
    /\ sPc = "done"
    /\ ~HasStoryMarker /\ ~HasSummaryMarker /\ ~HasTitleMarker
    /\ Len(SplitWords(sResponse)) > 50
    /\ sResponse # Strip(sResponse)
    /\ sParsed.content = sResponse
    /\ Len(SplitWords(sParsed.summary)) = 50

\* C24: for a reply in the requested format (a TITLE: line, a STORY: line,
\* story lines, a SUMMARY: line, summary lines) the content is exactly the
\* lines between the STORY: line and the SUMMARY: line and the summary is
\* exactly the lines after the SUMMARY: line, whatever the title and the
\* story lines say.
C24_FormattedReplyParsedExactly ==
    (sPc = "done" /\ sFormat.formatted) =>
        /\ sParsed.content = Strip(Join(sFormat.story_lines, <<"\n">>))
        /\ sParsed.summary = Strip(Join(sFormat.summary_lines, <<"\n">>))

\* a formatted reply whose second story line holds the text 'story:' has
\* been parsed, and the content has lost the first story line
C24_Witness ==
    /\ sPc = "done"
    /\ sFormat.formatted
    /\ sFormat.title = <<"T">>
    /\ Len(sFormat.story_lines) = 2
    /\ Contains(Upper(sFormat.story_lines[2]), StoryMarker)
    /\ ~Contains(Upper(sFormat.story_lines[1]), StoryMarker)
    /\ ~Contains(Upper(sFormat.story_lines[1]), SummaryMarker)
    /\ sParsed.content # Strip(Join(sFormat.story_lines, <<"\n">>))
    /\ sParsed.summary = Strip(Join(sFormat.summary_lines, <<"\n">>))

(***************************************************************************)
(* Claims about the difficulty of cached quizzes (under SpecAged)          *)
(***************************************************************************)
\* C25: in every reachable state every cached story that has a quiz has the
\* difficulty of its age group: easy for '5-7', medium for '8-10', hard for
\* '11-13', medium for any other string; and a quiz that replaces the quiz
\* of a story has the difficulty of the one it replaces.
C25_DifficultyFollowsAgeGroup ==
    /\ [](\A i \in 1..Len(story_cache) :
             LET story == heap[story_cache[i].ref]
             IN  story.quiz # NoQuiz =>
                    story.quiz.difficulty =
                       CASE story.age_group = "5-7" -> "easy"
                         [] story.age_group = "8-10" -> "medium"
                         [] story.age_group = "11-13" -> "hard"
                         [] OTHER -> "medium")
    /\ [][\A ref \in DOMAIN heap \cap DOMAIN heap' :
             (heap[ref].quiz # NoQuiz /\ heap'[ref].quiz # NoQuiz)
                => heap'[ref].quiz.difficulty = heap[ref].quiz.difficulty]_vars

\* the quiz of a cached story for ages 11-13 has been regenerated with one
\* question: the new quiz is hard as the one of three questions was
C25_Witness ==
    /\ http.op = "regenerate"
    /\ http.status = 200
    /\ heap[CacheGet(http.key)].age_group = "11-13"
    /\ Len(http.quiz.questions) = 1
    /\ heap[CacheGet(http.key)].quiz = http.quiz
    /\ http.quiz.difficulty = "hard"

(***************************************************************************)
(* Claims about the retryable exception kinds (under SpecRetry)            *)
(***************************************************************************)
\* The exception the next invocation raises is of a configured class or of a
\* subclass of one.
NextFailureInConfiguredSet ==
    LET kind == rFailKinds[rCalls + 1]
    IN  \/ "Exception" \in rExceptions
        \/ kind \in rExceptions
        \/ kind = "RateLimitError" /\ "APICallError" \in rExceptions

\* C27: with a restricted set of retryable kinds, an invocation that fails
\* with a kind outside the set ends the call: the wrapper raises that
\* exception, sleeps no more and invokes the function no more (so a first
\* invocation failing that way leaves one invocation and no sleep); with the
\* default configuration a failure of any kind within the budget is followed
\* by a sleep and a further invocation.
C27_OnlyConfiguredKindsRetried ==
    [][ (rPc = "call" /\ rCalls + 1 <= Len(rFailKinds)) =>
          /\ ~NextFailureInConfiguredSet =>
                /\ rPc' = "done"
                /\ rCalls' = rCalls + 1
                /\ rSlept' = rSlept
                /\ rOutcome' = [kind |-> "raised",
                                exception |-> [kind |-> rFailKinds[rCalls + 1],
                                               call |-> rCalls + 1]]
          /\ (rExceptions = {"Exception"} /\ rCalls + 1 < rMax) =>
                /\ rPc' = "sleep"
                /\ Len(rSlept') = Len(rSlept) + 1 ]_vars

\* under with_retry(max_attempts=3, exceptions=(APICallError,)) the first
\* invocation raised a ValueError: raised after one invocation, no sleep,
\* although later invocations would have failed retryably
C27_Witness ==
    /\ rExceptions = {"APICallError"}
    /\ rMax = 3
    /\ Len(rFailKinds) >= 2
    /\ rFailKinds[1] = "ValueError"
    /\ rFailKinds[2] = "RateLimitError"
    /\ rPc = "done"
    /\ rCalls = 1
    /\ rSlept = << >>
    /\ rOutcome = [kind |-> "raised", exception |-> [kind |-> "ValueError", call |-> 1]]

(***************************************************************************)
(* Claims about the voice of the stream (under SpecVoice)                  *)
(***************************************************************************)
\* C28: generate_audio_stream picks its voice as generate_audio does: for
\* the same language and caller-supplied voice, the child-voice preference
\* being at its default (on), both operations pick the same voice.
C28_StreamPicksSameVoice ==
    (vPc = "done" /\ vStreamPc = "done" /\ vUseChildVoice) =>
        vStreamSelected = vSelected

\* both operations ran for language 'en' with no voice given: the file got
\* the child's voice, the stream the general one
C28_Witness ==
    /\ vPc = "done"
    /\ vStreamPc = "done"
    /\ vUseChildVoice
    /\ ~vVoice.present
    /\ vLanguage = "en"
    /\ vSelected = "en-US-AnaNeural"
    /\ vStreamSelected = "en-US-AriaNeural"

(***************************************************************************)
(* Claims about the cache under interleaved requests (under SpecCached)    *)
(***************************************************************************)
\* C29: however generate, from-analysis and regenerate requests interleave
\* at their awaits, every cache entry's key is the story_id of the story
\* stored under it, the quiz of a cached story carries that key as its
\* story_id, and every story a request has returned is in the cache: under
\* its id for ever, and as the body of the response when it is sent.
C29_CacheConsistentUnderInterleaving ==
    /\ \A i \in 1..Len(story_cache) :
          LET story == heap[story_cache[i].ref]
          IN  /\ story.story_id = story_cache[i].key
              /\ story.quiz # NoQuiz => story.quiz.story_id = story_cache[i].key
    /\ \A i, j \in 1..Len(story_cache) :
          i # j => story_cache[i].key # story_cache[j].key
    /\ \A id \in returned : id \in CacheKeys
    /\ (http.op \in {"generate", "from_analysis"} /\ http.status = 200) =>
          /\ http.key \in CacheKeys
          /\ http.body = << heap[CacheGet(http.key)] >>

\* /generate has returned and cached a second story while a regenerate of
\* the first story is suspended at its vendor call
C29_Witness ==
    /\ http.op = "generate"
    /\ http.status = 200
    /\ Len(story_cache) = 2
    /\ \E r \in DOMAIN requests :
          /\ requests[r].op = "regenerate"
          /\ requests[r].key = 1
          /\ requests[r].key # http.key

(***************************************************************************)
(* C30: a /generate request ends with a story or an error; each stage      *)
(* makes at most three vendor calls (keyword analysis at most one), and    *)
(* the stages run in order, each only after the one before it succeeded    *)
(***************************************************************************)
PipelineEnded == gStage = "done" /\ gStatus \in {200, 500}

CallBudget(stage) ==
    IF stage = "analysis" /\ gInputType = "keyword" THEN 1 ELSE 3

\* C30: provided every vendor call returns or fails in finite time, the
\* request eventually ends with a story (200) or an error (500); no stage
\* ever makes more than three vendor calls, keyword analysis makes at most
\* one; the story stage calls the vendor only after the analysis succeeded
\* and the quiz stage only after the story succeeded; a stage that has
\* succeeded makes no further vendor call, and a story is answered only
\* when all three stages succeeded.
C30_GenerateTerminatesWithinBudget ==
    /\ <>PipelineEnded
    /\ [](/\ \A stage \in {"analysis", "story", "quiz"} :
                gCalls[stage] <= CallBudget(stage)
          /\ (gCalls["story"] > 0 \/ gStage = "story") => "analysis" \in gSucceeded
          /\ (gCalls["quiz"] > 0 \/ gStage = "quiz") => "story" \in gSucceeded
          /\ gStatus = 200 => gSucceeded = {"analysis", "story", "quiz"})
    /\ [][\A stage \in gSucceeded : gCalls'[stage] = gCalls[stage]]_vars

\* An image request that used all three attempts of every stage and was
\* answered with the story after nine vendor calls.
C30_Witness ==
    /\ gInputType \in {"sketch", "diagram"}
    /\ gStage = "done"
    /\ gStatus = 200
    /\ \A stage \in {"analysis", "story", "quiz"} : gCalls[stage] = 3
====
